---- MODULE Spec2Model ----
(***************************************************************************)
(* State-machine model of the analysis pipeline of youtubeAnalyzer:        *)
(*   - AnalysisOrchestrator.run_analysis and its steps                     *)
(*       (backend/app/services/analysis_orchestrator.py)                   *)
(*   - the sub-tasks it awaits (backend/app/tasks/transcription.py,        *)
(*       content_analysis.py, comment_analysis.py)                         *)
(*   - the single-coroutine pipeline app.tasks.analysis_task.run_analysis  *)
(*       (backend/app/tasks/analysis_task.py), specification SpecTask      *)
(*   - TaskService.update_task_status / cancel_task                        *)
(*       (backend/app/services/task_service.py)                            *)
(*   - WebSocketManager.send_message and the send_* helpers                *)
(*       (backend/app/api/v1/websocket.py)                                 *)
(*   - WebSocketManager with connect, disconnect and concurrent            *)
(*       send_message calls, and websocket_endpoint (backend/app/main.py), *)
(*       specification SpecWs                                              *)
(*   - LLMContentAnalyzer._make_api_call                                   *)
(*       (backend/app/services/content_analyzer.py), specification SpecApi *)
(*                                                                         *)
(* Python dicts are functions from string keys; str(e) / f-strings are     *)
(* sequences of tokens (the literal prefix, then the formatted value).     *)
(* The Chinese message literals of the source are written as ASCII tokens: *)
(*   "analysis_failed"        = "分析失败"                                 *)
(*   "data_extraction_failed" = "数据提取失败"                             *)
(*   "audio_transcription_failed" = "音频转录失败"                         *)
(*   "transcription_failed"   = "转录失败"                                 *)
(*   "report_generation_failed" = "报告生成失败"                           *)
(*   "comment_analysis_failed" = "评论分析失败"                            *)
(*   "analysis_started" = "开始分析", "analysis_completed" = "分析完成"    *)
(***************************************************************************)
EXTENDS Integers, Sequences, FiniteSets, TLC

\* ---------------------------------------------------------------- bounds
MaxCancels == 1
MaxComments == 1
MaxWords == 1
MaxTopics == 2
MaxRateWords == 5

\* send_message calls each caller makes
MaxSends == 1

\* ------------------------------------------------------- Python helpers
None == "None"

EmptyDict == [k \in {} |-> None]

\* a step result's data or a message that is None; every use in the modelled
\* code is a truthiness test, which None and the empty value both fail
NoData == EmptyDict

NoError == <<>>

Truthy(d) == d /= EmptyDict

\* an Optional[int] argument left at None
NoProgress == -1

Get(d, k, default) == IF k \in DOMAIN d THEN d[k] ELSE default

Put(d, k, v) == [j \in (DOMAIN d) \cup {k} |-> IF j = k THEN v ELSE d[j]]

Range(s) == {s[i] : i \in 1..Len(s)}

\* ------------------------------------------------------------ job store
TaskStatus == {"pending", "processing", "completed", "failed", "cancelled"}

TaskId == "j1"

MissingId == "missing"

Observers == {"w1"}

AnalysisTask ==
    [status |-> "pending", current_step |-> NoError, progress |-> 0,
     result_data |-> EmptyDict, error_message |-> NoError, completed_at |-> None]

Terminal == {"completed", "failed", "cancelled"}

\* AnalysisOrchestrator._update_task_status: one UPDATE that always sets
\* status and current_step, and completed_at when it is given.
orch_update_task_status(j, status, current_step, completed_at) ==
    [j EXCEPT !.status = status,
              !.current_step = current_step,
              !.completed_at = IF completed_at /= None THEN completed_at ELSE @]

\* TaskService.update_task_status: one UPDATE; optional columns are written
\* only when given; completed_at is stamped when status is COMPLETED.
update_task_status(j, status, current_step, progress, error_message) ==
    [j EXCEPT !.status = status,
              !.current_step = IF current_step /= NoError THEN current_step ELSE @,
              !.progress = IF progress /= NoProgress THEN progress ELSE @,
              !.error_message = IF error_message /= NoError THEN error_message ELSE @,
              !.completed_at = IF status = "completed" THEN "now" ELSE @]

\* --------------------------------------------------------- step results
StepResult(step, success, data, error) ==
    [step |-> step, success |-> success, data |-> data, error |-> error]

NoResult == [step |-> None, success |-> FALSE, data |-> NoData, error |-> NoError]

\* str(e) of the ExternalServiceError that run_analysis raises for a failed step
StepFailureMessage(result) ==
    CASE result.step = "extraction" -> <<"data_extraction_failed">> \o result.error
      [] result.step = "transcription" -> <<"audio_transcription_failed">> \o result.error
      [] result.step = "finalization" -> <<"report_generation_failed">> \o result.error
      [] OTHER -> result.error

\* ExternalServiceError(message): service and retry_after default to None
ExternalServiceError(msg) ==
    [type |-> "ExternalServiceError", msg |-> msg, retry_after |-> None]

NoException == [type |-> None, msg |-> <<>>, retry_after |-> None]

Outcome(kind, type) == [kind |-> kind, type |-> type]

\* ------------------------------------------------------------ event log
Ev(kind, v, src) == [kind |-> kind, v |-> v, src |-> src]

Tick(progress, src) == Ev("progress", progress, src)

Ticks(ps, src) == [i \in 1..Len(ps) |-> Tick(ps[i], src)]

NotifyEv(kind, v, src, to) == [kind |-> kind, v |-> v, src |-> src, to |-> to]

\* ------------------------------------------------------------ websocket
\* json.dumps(message) raises TypeError on a StepResult object (a dataclass);
\* strings, numbers, dicts of those and str-enum keys serialise.
JsonSerializable(message) ==
    ~(/\ message.type = "task_failed"
      /\ "step_results" \in DOMAIN message.error
      /\ message.error.step_results /= EmptyDict)

\* the connections on which `await connection.send_text(json.dumps(message))`
\* raises: all of them when json.dumps raises, else those whose peer is gone
SendErrors(conns, brk, message) ==
    IF JsonSerializable(message) THEN conns \cap brk ELSE conns

\* a send loop without the try/except: nothing is collected
disconnected_uncaught(conns, brk, message) == {}

\* the `disconnected` list of send_message: `except Exception` catches what
\* the send raises and appends the connection
disconnected(conns, brk, message) == SendErrors(conns, brk, message)

\* an exception leaves send_message when a send raises and is not caught
send_message_raises(conns, brk, message) ==
    SendErrors(conns, brk, message) \ disconnected(conns, brk, message) /= {}

\* the exception that then reaches the caller of the send_* helper
SendError ==
    [type |-> "RuntimeError", msg |-> <<"send_failed">>, retry_after |-> None]

\* WebSocketManager.send_message: the registered connections of the task after
\* the call. A connection whose send_text (or the json.dumps in the same try)
\* raises is collected in `disconnected` and removed.
send_message(conns, brk, message) == conns \ disconnected(conns, brk, message)

\* the text each observer has received once send_message returns
\* (progress texts are not recorded, only the terminal notifications)
Receive(dl, conns, brk, message) ==
    [w \in Observers |->
        IF w \in conns \ SendErrors(conns, brk, message)
           /\ message.type /= "progress_update"
        THEN Append(dl[w], message) ELSE dl[w]]

send_progress_update(conns, brk) ==
    send_message(conns, brk, [type |-> "progress_update"])

\* send_progress_update lets the exception of send_message through
progress_raises(conns, brk) ==
    send_message_raises(conns, brk, [type |-> "progress_update"])

TaskCompletedMessage(result) == [type |-> "task_completed", result |-> result]

TaskFailedMessage(error) == [type |-> "task_failed", error |-> error]

\* ------------------------------------------------------------ the state
VARIABLES
    job,                \* the AnalysisTask row of TaskId
    pc,                 \* where run_analysis is
    options,            \* the options argument of the current run
    step_results,       \* run_analysis' step_results dict
    exc,                \* the exception run_analysis' except clause handles
    outcome,            \* how the last run_analysis call ended
    cpc,                \* where the content-analysis branch is
    mpc,                \* where the comment-analysis branch is
    content_task,       \* the ORM row analyze_content_task loaded at its start
    comment_task,       \* the ORM row analyze_comments_task re-reads before its write
    comment_insights,   \* analysis_result built by analyze_comments_task
    content_result,     \* what the content_task future holds
    comment_result,     \* what the comment_task future holds
    cancelPc,           \* where cancel_task is
    cancelId,           \* its task_id argument
    cancelRet,          \* its return value
    cancels,            \* cancel_task calls made so far
    active_connections, \* websocket_manager.active_connections[TaskId]
    broken,             \* connections whose peer is gone (send_text raises)
    delivered,          \* terminal notifications each observer received in this run
    log,                \* calls made during the current run, in order
    llm,                \* the _make_api_call in progress: its arguments, loop position and history
    ws                  \* WebSocketManager in detail: its registry, list objects, sockets and send_message calls

vars == <<job, pc, options, step_results, exc, outcome, cpc, mpc,
          content_task, comment_task, comment_insights, content_result,
          comment_result, cancelPc, cancelId, cancelRet, cancels,
          active_connections, broken, delivered, log,
          llm,
          ws>>

runVars == <<options, step_results, exc, outcome>>

branchVars == <<cpc, mpc, content_task, comment_task, comment_insights,
                content_result, comment_result>>

cancelVars == <<cancelPc, cancelId, cancelRet, cancels>>

wsVars == <<active_connections, broken, delivered>>

\* ------------------------------------- WebSocketManager, in detail
\* The registry active_connections: Dict[str, List[WebSocket]] with its list
\* objects kept apart (heap), so that a send_message that iterates a list sees
\* what connect and other send_message calls do to the same list object.
WsTasks == {"j1", "j2"}

Sockets == {"s1", "s2"}

Senders == {"a", "b"}

\* a send_message call that has not started
SenderIdle ==
    [pc |-> "idle", task |-> None, list |-> 0, i |-> 0, conn |-> None,
     disconnected |-> <<>>, attempted |-> {}, stayed |-> {}, removed |-> <<>>,
     closed_before |-> {}, raised |-> None, calls |-> 0]

\* WebSocketManager(): no key, no socket accepted, no send in progress
WsIdle ==
    [active_connections |-> [t \in {} |-> 0],
     heap |-> <<>>,
     sock |-> [s \in Sockets |-> [state |-> "new", task |-> None]],
     send |-> [x \in Senders |-> SenderIdle]]

\* no _make_api_call is in progress
LlmIdle ==
    [pc |-> "idle", prompt |-> None, max_tokens |-> 0, attempt |-> 0,
     attempts |-> <<>>, sleeps |-> <<>>, result |-> Outcome("none", None)]

Init ==
    /\ job = AnalysisTask
    /\ pc = "idle"
    /\ options = [language |-> None]
    /\ step_results = EmptyDict
    /\ exc = NoException
    /\ outcome = Outcome("none", None)
    /\ cpc = "idle"
    /\ mpc = "idle"
    /\ content_task = AnalysisTask
    /\ comment_task = AnalysisTask
    /\ comment_insights = EmptyDict
    /\ content_result = NoResult
    /\ comment_result = NoResult
    /\ cancelPc = "idle"
    /\ cancelId = None
    /\ cancelRet = None
    /\ cancels = 0
    /\ active_connections = {}
    /\ broken = {}
    /\ delivered = [w \in Observers |-> <<>>]
    /\ log = <<>>
    /\ llm = LlmIdle
    /\ ws = WsIdle

\* ------------------------------------------------- run_analysis, entry
\* The caller invokes run_analysis(task_id, youtube_url, options), once per job
\* (single flight per job id).
\* the values of options.get("language")
Languages == {None, "en"}

StartRun ==
    /\ pc = "idle"
    /\ \E lang \in Languages : options' = [language |-> lang]
    /\ step_results' = EmptyDict
    /\ exc' = NoException
    /\ outcome' = Outcome("running", None)
    /\ cpc' = "idle"
    /\ mpc' = "idle"
    /\ content_result' = NoResult
    /\ comment_result' = NoResult
    /\ comment_insights' = EmptyDict
    /\ delivered' = [w \in Observers |-> <<>>]
    /\ log' = <<>>
    /\ pc' = "mark_processing"
    /\ UNCHANGED <<job, content_task, comment_task, cancelVars,
                   active_connections, broken>>
    /\ UNCHANGED llm
    /\ UNCHANGED ws

\* await self._update_task_status(task_id, TaskStatus.PROCESSING, "开始分析")
MarkProcessing ==
    /\ pc = "mark_processing"
    /\ job' = orch_update_task_status(job, "processing", <<"analysis_started">>, None)
    /\ log' = Append(log, Ev("status", "processing", "orchestrator"))
    /\ pc' = "extraction"
    /\ UNCHANGED <<runVars, branchVars, cancelVars, wsVars>>
    /\ UNCHANGED llm
    /\ UNCHANGED ws

\* ------------------------------------------------------ extraction step
ExtractionFailPoints == {"video_id", "video_info", "audio", "comments"}

\* the progress ticks _run_extraction_step has sent when the collaborator
\* call named f raises ("none": no call raises)
ExtractionTicks(f) ==
    CASE f = "video_id" -> <<5>>
      [] f = "video_info" -> <<5, 10>>
      [] f = "audio" -> <<5, 10, 15>>
      [] f = "comments" -> <<5, 10, 15, 20>>
      [] OTHER -> <<5, 10, 15, 20, 25>>

VideoInfo == [id |-> "v1", title |-> "t", duration |-> 60, view_count |-> 100,
              like_count |-> 1]

extraction_data(n) ==
    [video_info |-> VideoInfo, audio_file_path |-> "v1.wav", comments |-> n,
     video_id |-> "v1"]

\* the retry_after values YouTubeExtractor gives its RateLimitError (seconds,
\* written as the text that would appear in a message)
RetryAfterHints == {"300", "3600"}

\* RateLimitError(message, service, retry_after); str(e) is the message
RateLimitError(msg, retry_after) ==
    [type |-> "RateLimitError", msg |-> msg, retry_after |-> retry_after]

\* what the collaborator call named f can raise: get_video_info and
\* get_comments raise RateLimitError on quota / 429 responses
ExtractionExceptions(f) ==
    {[type |-> "YouTubeAPIError", msg |-> <<f>>, retry_after |-> None]}
        \cup (IF f \in {"video_info", "comments"}
              THEN {RateLimitError(<<f, "rate_limited">>, r) : r \in RetryAfterHints}
              ELSE {})

\* _run_extraction_step: f is the collaborator call that raises e, n the
\* number of comments fetched; the except clause turns any exception into a
\* failed StepResult whose error is str(e)
run_extraction_step(f, n, e) ==
    IF f = "none"
    THEN StepResult("extraction", TRUE, extraction_data(n), NoError)
    ELSE StepResult("extraction", FALSE, NoData, e.msg)

\* a run_analysis that carries on after a failed extraction
extraction_gate_missing(result) == FALSE

\* if not extraction_result.success: raise ExternalServiceError(...)
extraction_gate(result) == ~result.success

RunExtraction ==
    /\ pc = "extraction"
    /\ \E f \in ExtractionFailPoints \cup {"none"}, n \in 0..MaxComments :
       \E e \in IF f = "none" THEN {NoException} ELSE ExtractionExceptions(f) :
         LET r == IF progress_raises(active_connections, broken)
                  THEN StepResult("extraction", FALSE, NoData, SendError.msg)
                  ELSE run_extraction_step(f, n, e) IN
         /\ step_results' = Put(step_results, "extraction", r)
         /\ log' = ((log \o <<Ev("step", "extraction", "orchestrator")>>)
                        \o Ticks(ExtractionTicks(f), "orchestrator"))
                        \o (IF f = "none" THEN <<>>
                            ELSE <<Ev("raised", e, "extraction")>>)
         /\ IF extraction_gate(r)
            THEN /\ exc' = ExternalServiceError(StepFailureMessage(r))
                 /\ pc' = "except"
            ELSE /\ exc' = exc
                 /\ pc' = "transcription"
    /\ active_connections' = send_progress_update(active_connections, broken)
    /\ UNCHANGED <<job, options, outcome, branchVars, cancelVars,
                   broken, delivered>>
    /\ UNCHANGED llm
    /\ UNCHANGED ws

\* ---------------------------------------------------- the except clause
\* await self._update_task_status(task_id, TaskStatus.FAILED, f"分析失败: {str(e)}")
ExceptStatus ==
    /\ pc = "except"
    /\ job' = orch_update_task_status(job, "failed", <<"analysis_failed">> \o exc.msg, None)
    /\ log' = Append(log, Ev("status", "failed", "orchestrator"))
    /\ pc' = "except_notify"
    /\ UNCHANGED <<runVars, branchVars, cancelVars, wsVars>>
    /\ UNCHANGED llm
    /\ UNCHANGED ws

\* an except clause that swallows the exception instead of re-raising it
except_outcome_swallowed(e) == Outcome("returned", None)

\* the bare `raise` that ends the except clause
except_outcome(e) == Outcome("raised", e.type)

\* await send_task_failed(task_id, {"message": str(e), "step_results": step_results}); raise
ExceptNotify ==
    /\ pc = "except_notify"
    /\ LET error == [message |-> exc.msg, step_results |-> step_results]
           m == TaskFailedMessage(error) IN
         /\ log' = Append(log, NotifyEv("task_failed", error, "orchestrator",
                                        active_connections \ broken))
         /\ active_connections' = send_message(active_connections, broken, m)
         /\ delivered' = Receive(delivered, active_connections, broken, m)
         /\ outcome' = IF send_message_raises(active_connections, broken, m)
                        THEN Outcome("raised", SendError.type)
                        ELSE except_outcome(exc)
    /\ pc' = "done"
    /\ UNCHANGED <<job, options, step_results, exc, branchVars, cancelVars,
                   broken>>
    /\ UNCHANGED llm
    /\ UNCHANGED ws

\* --------------------------------------------------- transcription step
Texts == UNION {[1..k -> {"w"}] : k \in 0..MaxWords}

TranscriptionFailPoints(opts) ==
    {"validate", "transcribe"} \cup (IF opts.language = None THEN {"detect"} ELSE {})

\* the ticks transcribe_audio_task has sent when the call named f raises
TranscriptionTaskTicks(f) ==
    CASE f = "validate" -> <<10>>
      [] f = "detect" -> <<10, 20>>
      [] f = "transcribe" -> <<10, 20, 40>>
      [] OTHER -> <<10, 20, 40, 80, 100>>

transcription_result(text) ==
    [language |-> "en", duration |-> 60 * Len(text), word_count |-> Len(text),
     full_text |-> text]

\* a transcription step that does not look at its inputs first
transcription_inputs_unchecked(extraction) == TRUE

\* the required inputs of _run_transcription_step
transcription_inputs_ok(extraction) ==
    Truthy(extraction) /\ Get(extraction, "audio_file_path", None) /= None

\* _run_transcription_step -> StepResult
run_transcription_step(extraction, f, text) ==
    IF ~Truthy(extraction)
    THEN StepResult("transcription", FALSE, NoData, <<"extraction_data_not_found">>)
    ELSE IF Get(extraction, "audio_file_path", None) = None
    THEN StepResult("transcription", FALSE, NoData, <<"audio_file_path_not_found">>)
    ELSE IF f = "none"
    THEN StepResult("transcription", TRUE, transcription_result(text), NoError)
    ELSE StepResult("transcription", FALSE, NoData, <<f>>)

\* the job row after transcribe_audio_task: result_data["transcription"] is
\* stored on success; the except clause stores FAILED and the error message
transcribe_audio_task_row(j, f, text) ==
    IF f = "none"
    THEN [j EXCEPT !.result_data = Put(@, "transcription", transcription_result(text))]
    ELSE [j EXCEPT !.status = "failed",
                   !.error_message = <<"transcription_failed", f>>]

\* if not transcription_result.success: raise ExternalServiceError(...)
transcription_gate(result) == ~result.success

RunTranscription ==
    /\ pc = "transcription"
    /\ \E f \in TranscriptionFailPoints(options) \cup {"none"}, text \in Texts :
         LET extraction == step_results["extraction"].data
             raised == progress_raises(active_connections, broken)
             called == transcription_inputs_ok(extraction) /\ ~raised
             r == IF transcription_inputs_ok(extraction) /\ raised
                  THEN StepResult("transcription", FALSE, NoData, SendError.msg)
                  ELSE run_transcription_step(extraction, f, text) IN
         /\ step_results' = Put(step_results, "transcription", r)
         /\ job' = IF called THEN transcribe_audio_task_row(job, f, text) ELSE job
         /\ log' = ((log \o <<Ev("step", "transcription", "orchestrator")>>)
                        \o (IF called
                            THEN <<Tick(30, "orchestrator")>>
                                   \o Ticks(TranscriptionTaskTicks(f), "transcription")
                            ELSE <<>>))
                        \o (IF r.success THEN <<Tick(55, "orchestrator")>> ELSE <<>>)
         /\ active_connections' =
                IF transcription_inputs_ok(extraction)
                THEN send_progress_update(active_connections, broken)
                ELSE active_connections
         /\ IF transcription_gate(r)
            THEN /\ exc' = ExternalServiceError(StepFailureMessage(r))
                 /\ pc' = "except"
            ELSE /\ exc' = exc
                 /\ pc' = "parallel"
    /\ UNCHANGED <<options, outcome, branchVars, cancelVars,
                   broken, delivered>>
    /\ UNCHANGED llm
    /\ UNCHANGED ws

\* ------------------------------------------------ parallel analysis step
\* _run_parallel_analysis_steps up to the two asyncio.create_task calls
StartParallel ==
    /\ pc = "parallel"
    /\ LET extraction == step_results["extraction"].data
           transcription == step_results["transcription"].data IN
         IF progress_raises(active_connections, broken)
         THEN /\ exc' = SendError
              /\ pc' = "except"
              /\ UNCHANGED <<cpc, mpc>>
         ELSE IF ~Truthy(extraction) \/ ~Truthy(transcription)
         THEN /\ exc' = ExternalServiceError(<<"analysis_data_incomplete">>)
              /\ pc' = "except"
              /\ UNCHANGED <<cpc, mpc>>
         ELSE /\ exc' = exc
              /\ pc' = "gather"
              /\ cpc' = "select"
              /\ mpc' = "select"
    /\ log' = log \o <<Ev("step", "parallel", "orchestrator"), Tick(60, "orchestrator")>>
    /\ active_connections' = send_progress_update(active_connections, broken)
    /\ UNCHANGED <<job, options, step_results, outcome, content_task,
                   comment_task, comment_insights, content_result, comment_result,
                   cancelVars, broken, delivered>>
    /\ UNCHANGED llm
    /\ UNCHANGED ws

\* ------------------------------------- content branch (content_task)
\* analysis_result of analyze_content_task
ContentPayload ==
    [key_points |-> "key_points", topic_analysis |-> "topic_analysis",
     sentiment_analysis |-> "sentiment_analysis",
     content_structure |-> "content_structure", summary |-> "summary",
     recommendations |-> "recommendations", quality_score |-> "quality_score"]

\* analyze_content_task: task = (select AnalysisTask).scalar_one_or_none()
ContentSelect ==
    /\ cpc = "select"
    /\ content_task' = job
    /\ cpc' = "mark"
    /\ UNCHANGED <<job, pc, runVars, mpc, comment_task, comment_insights,
                   content_result, comment_result, cancelVars, wsVars, log>>
    /\ UNCHANGED llm
    /\ UNCHANGED ws

\* the UPDATE analyze_content_task makes before it analyses
content_mark_row(j) ==
    [j EXCEPT !.status = "processing",
              !.current_step = <<"content_analysis">>,
              !.progress = 85]

\* str(e) of what analyze_content_task raises: the ValidationError for an
\* empty transcript, or the analyzer's ExternalServiceError when f = "analyze"
content_exception(transcription, f) ==
    IF Get(transcription, "full_text", <<>>) = <<>>
    THEN [type |-> "ValidationError", msg |-> <<"transcript_required">>]
    ELSE IF f = "analyze"
    THEN [type |-> "ExternalServiceError", msg |-> <<"content_analysis_failed", f>>]
    ELSE NoException

\* the error message the except clauses of analyze_content_task store and send
content_error_message(e) ==
    IF e.type = "ValidationError" THEN e.msg ELSE <<"content_analysis_failed">> \o e.msg

\* the UPDATE that ends analyze_content_task; task is the row it loaded at its start
content_finish_row(j, task, e) ==
    IF e = NoException
    THEN [j EXCEPT !.result_data = Put(task.result_data, "content_analysis", ContentPayload),
                   !.progress = 95]
    ELSE [j EXCEPT !.status = "failed",
                   !.error_message = content_error_message(e),
                   !.current_step = <<"content_analysis">>]

\* _run_content_analysis -> StepResult
run_content_analysis(e) ==
    IF e = NoException
    THEN StepResult("content_analysis", TRUE, ContentPayload, NoError)
    ELSE StepResult("content_analysis", FALSE, NoData, e.msg)

ContentMark ==
    /\ cpc = "mark"
    /\ log' = Append(log, Tick(85, "content"))
    /\ active_connections' = send_progress_update(active_connections, broken)
    /\ IF progress_raises(active_connections, broken)
       THEN /\ job' = content_finish_row(content_mark_row(job), content_task, SendError)
            /\ content_result' = run_content_analysis(SendError)
            /\ cpc' = "done"
       ELSE /\ job' = content_mark_row(job)
            /\ content_result' = content_result
            /\ cpc' = "analyze"
    /\ UNCHANGED <<pc, runVars, mpc, content_task, comment_task,
                   comment_insights, comment_result, cancelVars,
                   broken, delivered>>
    /\ UNCHANGED llm
    /\ UNCHANGED ws

ContentAnalyze ==
    /\ cpc = "analyze"
    /\ \E f \in {"none", "analyze"} :
         LET e0 == content_exception(step_results["transcription"].data, f)
             e == IF e0 = NoException /\ progress_raises(active_connections, broken)
                  THEN SendError ELSE e0
             error == [error |-> content_error_message(e)]
             m == TaskFailedMessage(error) IN
         /\ job' = IF e = SendError
                   THEN content_finish_row(content_finish_row(job, content_task, e0),
                                           content_task, e)
                   ELSE content_finish_row(job, content_task, e)
         /\ content_result' = run_content_analysis(e)
         /\ IF e = NoException
            THEN /\ log' = Append(log, Tick(95, "content"))
                 /\ active_connections' = send_progress_update(active_connections, broken)
                 /\ delivered' = delivered
            ELSE /\ log' = Append(log, NotifyEv("task_failed", error, "content",
                                                active_connections \ broken))
                 /\ active_connections' = send_message(active_connections, broken, m)
                 /\ delivered' = Receive(delivered, active_connections, broken, m)
    /\ cpc' = "done"
    /\ UNCHANGED <<pc, runVars, mpc, content_task, comment_task,
                   comment_insights, comment_result, cancelVars, broken>>
    /\ UNCHANGED llm
    /\ UNCHANGED ws

\* ------------------------------------- comment branch (comment_task)
\* analysis_result of analyze_comments_task for k comments
CommentPayload(k) ==
    [total_comments |-> k,
     sentiment_distribution |-> [positive |-> k, negative |-> 0, neutral |-> 0],
     main_themes |-> "main_themes", author_engagement |-> "author_engagement",
     top_comments |-> "top_comments", spam_detection |-> "spam_detection",
     engagement_metrics |-> "engagement_metrics",
     recommendations |-> "recommendations"]

\* the collaborator calls of analyze_comments_task that can raise, given the
\* n comments passed in (comments are fetched again when none were passed)
CommentFailPoints(n) ==
    {"video_info"} \cup (IF n = 0 THEN {"comments"} ELSE {})

\* the ticks analyze_comments_task has sent when the call named f raises
\* ("none": up to the tick before its result_data write)
CommentTaskTicks(n, f) ==
    CASE f = "send_failed" -> <<10>>
      [] f = "video_info" -> <<10, 20>>
      [] f = "comments" -> <<10, 20, 30>>
      [] f = "analyze" -> IF n = 0 THEN <<10, 20, 30, 40>> ELSE <<10, 20, 40>>
      [] OTHER -> IF n = 0 THEN <<10, 20, 30, 40, 80>> ELSE <<10, 20, 40, 80>>

\* the except clause of analyze_comments_task: raise AnalysisError(f"评论分析失败: {e}")
comment_error_message(f) == <<"comment_analysis_failed", f>>

comment_fail_row(j, f) ==
    [j EXCEPT !.status = "failed", !.error_message = comment_error_message(f)]

\* analyze_comments_task up to `await comment_analyzer.analyze_comments`
\* returning (m comments are fetched when none were passed in)
CommentStart ==
    /\ mpc = "select"
    /\ LET n == step_results["extraction"].data.comments IN
       \E m \in 0..MaxComments :
       \E f0 \in CommentFailPoints(n) \cup {"none"}
                \cup (IF (IF n = 0 THEN m ELSE n) > 0 THEN {"analyze"} ELSE {}) :
         LET f == IF progress_raises(active_connections, broken)
                  THEN "send_failed" ELSE f0 IN
         IF f = "none"
         THEN /\ comment_insights' = CommentPayload(IF n = 0 THEN m ELSE n)
              /\ log' = log \o Ticks(CommentTaskTicks(n, f), "comment")
              /\ mpc' = "read"
              /\ UNCHANGED <<job, comment_result>>
         ELSE /\ job' = comment_fail_row(job, f)
              /\ log' = (log \o Ticks(CommentTaskTicks(n, f), "comment"))
                            \o <<Tick(0, "comment")>>
              /\ comment_result' = StepResult("comment_analysis", FALSE, NoData,
                                              comment_error_message(f))
              /\ mpc' = "done"
              /\ UNCHANGED comment_insights
    /\ active_connections' = send_progress_update(active_connections, broken)
    /\ UNCHANGED <<pc, runVars, cpc, content_task, comment_task,
                   content_result, cancelVars, broken, delivered>>
    /\ UNCHANGED llm
    /\ UNCHANGED ws

\* task = (select AnalysisTask).scalar_one(); current_result = task.result_data or {}
CommentRead ==
    /\ mpc = "read"
    /\ comment_task' = job
    /\ mpc' = "write"
    /\ UNCHANGED <<job, pc, runVars, cpc, content_task, comment_insights,
                   content_result, comment_result, cancelVars, wsVars, log>>
    /\ UNCHANGED llm
    /\ UNCHANGED ws

comment_write_row(j, task, insights) ==
    [j EXCEPT !.result_data = Put(task.result_data, "comment_analysis", insights)]

CommentWrite ==
    /\ mpc = "write"
    /\ log' = Append(log, Tick(100, "comment"))
    /\ active_connections' = send_progress_update(active_connections, broken)
    /\ IF progress_raises(active_connections, broken)
       THEN /\ job' = comment_fail_row(comment_write_row(job, comment_task,
                                                         comment_insights),
                                       "send_failed")
            /\ comment_result' = StepResult("comment_analysis", FALSE, NoData,
                                            comment_error_message("send_failed"))
       ELSE /\ job' = comment_write_row(job, comment_task, comment_insights)
            /\ comment_result' = StepResult("comment_analysis", TRUE,
                                            comment_insights, NoError)
    /\ mpc' = "done"
    /\ UNCHANGED <<pc, runVars, cpc, content_task, comment_task,
                   comment_insights, content_result, cancelVars, broken,
                   delivered>>
    /\ UNCHANGED llm
    /\ UNCHANGED ws

\* ------------------------------------------------------------ the join
\* a join that returns as soon as either branch has finished
gather_ready_first(c, m) == c = "done" \/ m = "done"

\* await asyncio.gather(content_task, comment_task, return_exceptions=True)
gather_ready(c, m) == c = "done" /\ m = "done"

Gather ==
    /\ pc = "gather"
    /\ gather_ready(cpc, mpc)
    /\ step_results' = Put(Put(step_results, "content_analysis", content_result),
                           "comment_analysis", comment_result)
    /\ log' = Append(log, Tick(85, "orchestrator"))
    /\ active_connections' = send_progress_update(active_connections, broken)
    /\ IF progress_raises(active_connections, broken)
       THEN exc' = SendError /\ pc' = "except"
       ELSE exc' = exc /\ pc' = "finalization"
    /\ UNCHANGED <<job, options, outcome, branchVars, cancelVars,
                   broken, delivered>>
    /\ UNCHANGED llm
    /\ UNCHANGED ws

\* ---------------------------------------------------- finalization step
\* x.data if x and x.data else {}
StepData(results, step) ==
    IF step \in DOMAIN results /\ Truthy(results[step].data)
    THEN results[step].data
    ELSE EmptyDict

\* sum(d.values())
RECURSIVE SumOver(_, _)
SumOver(d, keys) ==
    IF keys = {} THEN 0
    ELSE LET k == CHOOSE x \in keys : TRUE IN d[k] + SumOver(d, keys \ {k})

SumValues(d) == SumOver(d, DOMAIN d)

\* a Python float a / b with b /= 0, kept as the pair <<a, b>>; scores that the
\* source writes as decimals (0.9, 0.5, ...) are integers in hundredths
Ratio(a, b) == <<a, b>>

\* s[:n]
Take(s, n) == SubSeq(s, 1, IF Len(s) < n THEN Len(s) ELSE n)

\* x.lower()
Lower(x) ==
    CASE x = "AI" -> "ai"
      [] x = "Tech" -> "tech"
      [] OTHER -> x

\* transcript_info of _generate_comprehensive_report
TranscriptInfo(transcription) ==
    [language |-> Get(transcription, "language", None),
     duration |-> Get(transcription, "duration", 0),
     full_text |-> Get(transcription, "full_text", <<>>),
     word_count |-> Len(Get(transcription, "full_text", <<>>))]

\* _calculate_alignment_score(content_sentiment, positive / total), in hundredths
calculate_alignment_score(content_sentiment, positive, total) ==
    IF content_sentiment = "positive" /\ 10 * positive > 6 * total THEN 90
    ELSE IF content_sentiment = "neutral" /\ 3 * total <= 10 * positive
                                         /\ 10 * positive <= 7 * total THEN 80
    ELSE IF content_sentiment = "negative" /\ 10 * positive < 4 * total THEN 70
    ELSE 50

\* an overlap that compares the strings as they are, without lower()
calculate_topic_overlap_cased(content_topics, comment_keywords) ==
    IF content_topics = <<>> \/ comment_keywords = <<>>
    THEN Ratio(0, 1)
    ELSE Ratio(Cardinality(Range(content_topics) \cap Range(comment_keywords)),
               Cardinality(Range(content_topics) \cup Range(comment_keywords)))

\* _calculate_topic_overlap -> |A n B| / |A u B|
calculate_topic_overlap(content_topics, comment_keywords) ==
    IF content_topics = <<>> \/ comment_keywords = <<>>
    THEN Ratio(0, 1)
    ELSE LET content_set == {Lower(t) : t \in Range(content_topics)}
             comment_set == {Lower(t) : t \in Range(comment_keywords)}
         IN Ratio(Cardinality(content_set \cap comment_set),
                  Cardinality(content_set \cup comment_set))

\* total_comments of _generate_cross_analysis_insights:
\* sum(comment_sentiment.values()) if comment_sentiment.values() else 1
cross_total_comments(comment_sentiment) ==
    IF DOMAIN comment_sentiment /= {} THEN SumValues(comment_sentiment) ELSE 1

\* the division positive_comments / total_comments raises ZeroDivisionError
cross_analysis_raises(content_analysis, comment_analysis) ==
    LET content_sentiment ==
            Get(Get(content_analysis, "sentiment_analysis", EmptyDict),
                "overall_sentiment", None)
        comment_sentiment == Get(comment_analysis, "sentiment_distribution", EmptyDict)
    IN /\ content_sentiment /= None
       /\ Truthy(comment_sentiment)
       /\ cross_total_comments(comment_sentiment) = 0

\* _generate_cross_analysis_insights, when it does not raise
generate_cross_analysis_insights(content_analysis, comment_analysis, video_info) ==
    LET content_sentiment ==
            Get(Get(content_analysis, "sentiment_analysis", EmptyDict),
                "overall_sentiment", None)
        comment_sentiment == Get(comment_analysis, "sentiment_distribution", EmptyDict)
        positive_comments == Get(comment_sentiment, "positive", 0)
        total_comments == cross_total_comments(comment_sentiment)
        view_count == Get(video_info, "view_count", 0)
        like_count == Get(video_info, "like_count", 0)
        comment_count == Get(comment_analysis, "comments", 0)
        content_topics ==
            Get(Get(content_analysis, "topic_analysis", EmptyDict), "main_topics", <<>>)
        comment_keywords == Get(comment_analysis, "key_themes", <<>>)
        topic_overlap == calculate_topic_overlap(content_topics, comment_keywords)
    IN [content_audience_alignment |->
            IF content_sentiment /= None /\ Truthy(comment_sentiment)
            THEN [content_tone |-> content_sentiment,
                  audience_response_positive_ratio |->
                      Ratio(positive_comments, total_comments),
                  alignment_score |->
                      calculate_alignment_score(content_sentiment,
                                                positive_comments, total_comments)]
            ELSE EmptyDict,
        engagement_patterns |->
            IF view_count > 0
            THEN [like_to_view_ratio |-> Ratio(like_count, view_count),
                  comment_to_view_ratio |-> Ratio(comment_count, view_count),
                  overall_engagement_rate |->
                      Ratio(like_count + comment_count, view_count),
                  engagement_quality |->
                      IF 100 * (like_count + comment_count) > 5 * view_count
                      THEN "high"
                      ELSE IF 100 * (like_count + comment_count) > view_count
                      THEN "medium" ELSE "low"]
            ELSE EmptyDict,
        sentiment_correlation |-> EmptyDict,
        topic_resonance |->
            IF content_topics /= <<>> /\ comment_keywords /= <<>>
            THEN [content_topics |-> Take(content_topics, 5),
                  audience_themes |-> Take(comment_keywords, 5),
                  topic_overlap_score |-> topic_overlap,
                  resonance_level |->
                      IF 10 * topic_overlap[1] > 6 * topic_overlap[2] THEN "high"
                      ELSE IF 10 * topic_overlap[1] > 3 * topic_overlap[2]
                      THEN "medium" ELSE "low"]
            ELSE EmptyDict]

\* the division by sum(comment_sentiment.values()) in _generate_recommendations
\* raises ZeroDivisionError
recommendations_raises(comment_analysis) ==
    LET comment_sentiment == Get(comment_analysis, "sentiment_distribution", EmptyDict)
    IN DOMAIN comment_sentiment /= {} /\ SumValues(comment_sentiment) = 0

\* the elements of s for which keep[i] holds, in order
RECURSIVE Select(_, _)
Select(s, keep) ==
    IF s = <<>> THEN <<>>
    ELSE (IF Head(keep) THEN <<Head(s)>> ELSE <<>>) \o Select(Tail(s), Tail(keep))

\* _generate_recommendations, when it does not raise
generate_recommendations(content_analysis, comment_analysis, video_info, transcript_info) ==
    LET content_structure == Get(content_analysis, "content_structure", EmptyDict)
        comment_sentiment == Get(comment_analysis, "sentiment_distribution", EmptyDict)
        negative == Get(comment_sentiment, "negative", 0)
        total == SumValues(comment_sentiment)
        creator_responses ==
            Get(Get(comment_analysis, "creator_interaction", EmptyDict),
                "response_rate", 0)
        speaking_rate == Get(transcript_info, "speaking_rate_wpm", 0)
        view_count == Get(video_info, "view_count", 0)
        like_count == Get(video_info, "like_count", 0)
    IN [content_optimization |->
            Select(<<"improve_opening", "improve_ending">>,
                   <<Get(content_structure, "introduction_quality", 0) < 70,
                     Get(content_structure, "conclusion_quality", 0) < 70>>),
        audience_engagement |->
            Select(<<"address_negative_feedback", "reply_to_more_comments">>,
                   <<DOMAIN comment_sentiment /= {} /\ 10 * negative > 3 * total,
                     creator_responses < 10>>),
        technical_improvements |->
            IF speaking_rate > 180 THEN <<"slow_down">>
            ELSE IF speaking_rate < 120 THEN <<"speed_up">>
            ELSE <<>>,
        strategic_insights |->
            Select(<<"improve_like_rate">>,
                   <<view_count > 0 /\ 100 * like_count < 2 * view_count>>)]

\* the division by sum(sentiment_dist.values()) in _calculate_overall_score
\* raises ZeroDivisionError
overall_score_raises(comment_analysis) ==
    LET sentiment_dist == Get(comment_analysis, "sentiment_distribution", EmptyDict)
    IN Truthy(sentiment_dist) /\ SumValues(sentiment_dist) = 0

\* round(n / d, 2) in hundredths, n / d being given in hundredths: the
\* nearest integer, a tie going to the even one
Round(n, d) ==
    LET q == n \div d
        r == n % d
    IN IF 2 * r > d \/ (2 * r = d /\ q % 2 = 1) THEN q + 1 ELSE q

\* a score that counts an absent positive ratio as 0.5 and always averages
\* three components
calculate_overall_score_three(content_analysis, comment_analysis) ==
    LET content_quality ==
            Get(Get(content_analysis, "quality_metrics", EmptyDict),
                "overall_quality", 50)
        sentiment_dist == Get(comment_analysis, "sentiment_distribution", EmptyDict)
        positive == IF Truthy(sentiment_dist) THEN Get(sentiment_dist, "positive", 0) ELSE 1
        total == IF Truthy(sentiment_dist) THEN SumValues(sentiment_dist) ELSE 2
        structure_score ==
            Get(Get(content_analysis, "content_structure", EmptyDict),
                "overall_structure_score", 50)
    IN Round((content_quality + structure_score) * total + 100 * positive, 3 * total)

\* _calculate_overall_score, in hundredths, when it does not raise
calculate_overall_score(content_analysis, comment_analysis) ==
    LET content_quality ==
            Get(Get(content_analysis, "quality_metrics", EmptyDict),
                "overall_quality", 50)
        sentiment_dist == Get(comment_analysis, "sentiment_distribution", EmptyDict)
        positive == Get(sentiment_dist, "positive", 0)
        total == SumValues(sentiment_dist)
        structure_score ==
            Get(Get(content_analysis, "content_structure", EmptyDict),
                "overall_structure_score", 50)
    IN IF Truthy(sentiment_dist)
       THEN Round((content_quality + structure_score) * total + 100 * positive,
                  3 * total)
       ELSE Round(content_quality + structure_score, 2)

\* an exception leaves _generate_comprehensive_report
report_raises(content_data, comment_data) ==
    LET content_analysis == Get(content_data, "analysis", EmptyDict)
        comment_analysis == Get(comment_data, "analysis", EmptyDict)
    IN \/ cross_analysis_raises(content_analysis, comment_analysis)
       \/ recommendations_raises(comment_analysis)
       \/ overall_score_raises(comment_analysis)

\* the section names of comprehensive_report
ReportSections ==
    {"summary", "transcript_analysis", "content_insights", "audience_feedback",
     "cross_analysis_insights", "recommendations", "metadata"}

\* _generate_comprehensive_report, when it does not raise
generate_comprehensive_report(extraction, transcription, content_data, comment_data, opts) ==
    LET video_info == Get(extraction, "video_info", EmptyDict)
        transcript_info == TranscriptInfo(transcription)
        content_analysis == Get(content_data, "analysis", EmptyDict)
        comment_analysis == Get(comment_data, "analysis", EmptyDict)
    IN [summary |-> [video_title |-> Get(video_info, "title", None),
                     comment_count |-> Get(extraction, "comments", 0),
                     overall_score |->
                         calculate_overall_score(content_analysis, comment_analysis)],
        transcript_analysis |->
            [language |-> transcript_info.language,
             word_count |-> transcript_info.word_count,
             duration_seconds |-> transcript_info.duration,
             speaking_rate_wpm |->
                 IF transcript_info.duration /= 0
                 THEN Ratio(60 * transcript_info.word_count, transcript_info.duration)
                 ELSE Ratio(0, 1)],
        content_insights |-> content_analysis,
        audience_feedback |-> comment_analysis,
        cross_analysis_insights |->
            generate_cross_analysis_insights(content_analysis, comment_analysis,
                                             video_info),
        recommendations |->
            generate_recommendations(content_analysis, comment_analysis,
                                     video_info, transcript_info),
        metadata |-> [analysis_options |-> opts]]

\* a finalization that gives up when a prior result is absent or failed
run_finalization_step_strict(results, opts) ==
    IF \/ \E s \in {"extraction", "transcription", "content_analysis",
                    "comment_analysis"} :
              s \notin DOMAIN results \/ ~results[s].success
       \/ report_raises(StepData(results, "content_analysis"),
                        StepData(results, "comment_analysis"))
    THEN StepResult("finalization", FALSE, NoData, <<"missing_step_result">>)
    ELSE StepResult("finalization", TRUE,
                    generate_comprehensive_report(StepData(results, "extraction"),
                                                  StepData(results, "transcription"),
                                                  StepData(results, "content_analysis"),
                                                  StepData(results, "comment_analysis"),
                                                  opts),
                    NoError)

\* _run_finalization_step -> StepResult
run_finalization_step(results, opts) ==
    IF report_raises(StepData(results, "content_analysis"),
                     StepData(results, "comment_analysis"))
    THEN StepResult("finalization", FALSE, NoData, <<"division by zero">>)
    ELSE StepResult("finalization", TRUE,
                    generate_comprehensive_report(StepData(results, "extraction"),
                                                  StepData(results, "transcription"),
                                                  StepData(results, "content_analysis"),
                                                  StepData(results, "comment_analysis"),
                                                  opts),
                    NoError)

\* if not final_result.success: raise ExternalServiceError(...)
finalization_gate(result) == ~result.success

RunFinalization ==
    /\ pc = "finalization"
    /\ LET r == IF progress_raises(active_connections, broken)
                THEN StepResult("finalization", FALSE, NoData, SendError.msg)
                ELSE run_finalization_step(step_results, options) IN
         /\ step_results' = Put(step_results, "finalization", r)
         /\ log' = (log \o <<Ev("step", "finalization", "orchestrator"),
                             Tick(90, "orchestrator")>>)
                       \o (IF r.success THEN <<Tick(100, "orchestrator")>> ELSE <<>>)
         /\ IF finalization_gate(r)
            THEN /\ exc' = ExternalServiceError(StepFailureMessage(r))
                 /\ pc' = "except"
            ELSE /\ exc' = exc
                 /\ pc' = "mark_completed"
    /\ active_connections' = send_progress_update(active_connections, broken)
    /\ UNCHANGED <<job, options, outcome, branchVars, cancelVars,
                   broken, delivered>>
    /\ UNCHANGED llm
    /\ UNCHANGED ws

\* await self._update_task_status(task_id, TaskStatus.COMPLETED, "分析完成", completed_at=...)
MarkCompleted ==
    /\ pc = "mark_completed"
    /\ job' = orch_update_task_status(job, "completed", <<"analysis_completed">>, "now")
    /\ log' = Append(log, Ev("status", "completed", "orchestrator"))
    /\ pc' = "notify_completed"
    /\ UNCHANGED <<runVars, branchVars, cancelVars, wsVars>>
    /\ UNCHANGED llm
    /\ UNCHANGED ws

\* await send_task_completed(task_id, final_result.data or {}); the call returns
NotifyCompleted ==
    /\ pc = "notify_completed"
    /\ LET result == step_results["finalization"].data
           m == TaskCompletedMessage(result) IN
         /\ log' = Append(log, NotifyEv("task_completed", result, "orchestrator",
                                        active_connections \ broken))
         /\ active_connections' = send_message(active_connections, broken, m)
         /\ delivered' = Receive(delivered, active_connections, broken, m)
         /\ IF send_message_raises(active_connections, broken, m)
            THEN exc' = SendError /\ outcome' = outcome /\ pc' = "except"
            ELSE exc' = exc /\ outcome' = Outcome("returned", None) /\ pc' = "done"
    /\ UNCHANGED <<job, options, step_results, branchVars, cancelVars,
                   broken>>
    /\ UNCHANGED llm
    /\ UNCHANGED ws

\* ------------------------------------------------------- TaskService
\* TaskService.get_task: the row, if any (Optional as a set of at most one)
get_task(id, j) == IF id = TaskId THEN {j} ELSE {}

\* the two early returns of cancel_task
cancel_refused(task) == task = {} \/ (\E t \in task : t.status \in Terminal)

\* cancel_task up to its decision: task = await self.get_task(task_id)
CancelRead ==
    /\ cancelPc = "idle"
    /\ cancels < MaxCancels
    /\ cancels' = cancels + 1
    /\ \E id \in {TaskId, MissingId} :
         /\ cancelId' = id
         /\ IF cancel_refused(get_task(id, job))
            THEN cancelRet' = "False" /\ cancelPc' = "idle"
            ELSE cancelRet' = None /\ cancelPc' = "write"
    /\ UNCHANGED <<job, pc, runVars, branchVars, wsVars, log>>
    /\ UNCHANGED llm
    /\ UNCHANGED ws

\* await self.update_task_status(task_id, TaskStatus.CANCELLED); return True
CancelWrite ==
    /\ cancelPc = "write"
    /\ job' = update_task_status(job, "cancelled", NoError, NoProgress, NoError)
    /\ cancelRet' = "True"
    /\ cancelPc' = "idle"
    /\ UNCHANGED <<pc, runVars, branchVars, cancelId, cancels,
                   wsVars, log>>
    /\ UNCHANGED llm
    /\ UNCHANGED ws

\* ------------------------------------------------------- observers
\* WebSocketManager.connect: a client opens /ws/{task_id}
Connect ==
    /\ \E w \in Observers \ (active_connections \cup broken) :
         active_connections' = active_connections \cup {w}
    /\ UNCHANGED <<job, pc, runVars, branchVars, cancelVars,
                   broken, delivered, log>>
    /\ UNCHANGED llm
    /\ UNCHANGED ws

\* the peer of a registered connection goes away: its next send_text raises
PeerGone ==
    /\ \E w \in active_connections \ broken : broken' = broken \cup {w}
    /\ UNCHANGED <<job, pc, runVars, branchVars, cancelVars,
                   active_connections, delivered, log>>
    /\ UNCHANGED llm
    /\ UNCHANGED ws

\* ------------------------------------------------------- specification
Next ==
    \/ StartRun
    \/ MarkProcessing
    \/ RunExtraction
    \/ RunTranscription
    \/ StartParallel
    \/ ContentSelect
    \/ ContentMark
    \/ ContentAnalyze
    \/ CommentStart
    \/ CommentRead
    \/ CommentWrite
    \/ Gather
    \/ RunFinalization
    \/ MarkCompleted
    \/ NotifyCompleted
    \/ ExceptStatus
    \/ ExceptNotify
    \/ CancelRead
    \/ CancelWrite
    \/ Connect
    \/ PeerGone

Spec == Init /\ [][Next]_vars

\* ------------------------------------- _run_finalization_step on its own
\* _run_finalization_step(task_id, step_results, options) called with any
\* step_results: each prior result is absent (NoResult: no key), failed, or
\* succeeded; a succeeded analysis result carries either the payload the
\* task returns or a payload under the "analysis" key the report reads.
ExtractionResults ==
    {NoResult, StepResult("extraction", FALSE, NoData, <<"video_info">>)}
        \cup {StepResult("extraction", TRUE, extraction_data(n), NoError) :
                 n \in 0..MaxComments}

TranscriptionResults ==
    {NoResult, StepResult("transcription", FALSE, NoData, <<"transcribe">>)}
        \cup {StepResult("transcription", TRUE, transcription_result(text), NoError) :
                 text \in Texts}

ContentResults ==
    {NoResult,
     StepResult("content_analysis", FALSE, NoData, <<"content_analysis_failed">>),
     StepResult("content_analysis", TRUE, ContentPayload, NoError),
     StepResult("content_analysis", TRUE,
                [analysis |-> [sentiment_analysis |-> [overall_sentiment |-> "positive"]]],
                NoError),
     StepResult("content_analysis", TRUE,
                [analysis |-> [quality_metrics |-> [overall_quality |-> 80],
                               content_structure |-> [overall_structure_score |-> 70]]],
                NoError)}

CommentResults ==
    {NoResult,
     StepResult("comment_analysis", FALSE, NoData, comment_error_message("video_info"))}
        \cup {StepResult("comment_analysis", TRUE, CommentPayload(k), NoError) :
                 k \in 0..MaxComments}
        \cup {StepResult("comment_analysis", TRUE,
                         [analysis |->
                            [sentiment_distribution |->
                                [positive |-> p, negative |-> q, neutral |-> 0]]],
                         NoError) : p \in 0..MaxComments, q \in 0..MaxComments}

\* the step_results dict holding the given results, absent ones left out
StepResultsOf(e, t, c, m) ==
    LET all == [extraction |-> e, transcription |-> t, content_analysis |-> c,
                comment_analysis |-> m]
    IN [k \in {x \in DOMAIN all : all[x] /= NoResult} |-> all[k]]

InitFinal ==
    /\ job = [AnalysisTask EXCEPT !.status = "processing"]
    /\ pc = "finalization"
    /\ \E lang \in Languages : options = [language |-> lang]
    /\ \E e \in ExtractionResults, t \in TranscriptionResults,
          c \in ContentResults, m \in CommentResults :
         step_results = StepResultsOf(e, t, c, m)
    /\ exc = NoException
    /\ outcome = Outcome("running", None)
    /\ cpc = "idle"
    /\ mpc = "idle"
    /\ content_task = AnalysisTask
    /\ comment_task = AnalysisTask
    /\ comment_insights = EmptyDict
    /\ content_result = NoResult
    /\ comment_result = NoResult
    /\ cancelPc = "idle"
    /\ cancelId = None
    /\ cancelRet = None
    /\ cancels = 0
    /\ active_connections = {}
    /\ broken = {}
    /\ delivered = [w \in Observers |-> <<>>]
    /\ log = <<>>
    /\ llm = LlmIdle
    /\ ws = WsIdle

NextFinal ==
    \/ RunFinalization
    \/ MarkCompleted
    \/ NotifyCompleted
    \/ ExceptStatus
    \/ ExceptNotify

SpecFinal == InitFinal /\ [][NextFinal]_vars

\* ------------------------------------------- the steps on their own
\* _run_transcription_step(task_id, extraction_data, options) and
\* _run_parallel_analysis_steps(task_id, extraction_data, transcription_data,
\* options) called with any data: None / {}, the extraction data without
\* its audio file path, or the data the previous steps return.
ExtractionDataInputs ==
    {NoData}
        \cup {extraction_data(n) : n \in 0..MaxComments}
        \cup {[video_info |-> VideoInfo, comments |-> n, video_id |-> "v1"] :
                 n \in 0..MaxComments}

TranscriptionDataInputs ==
    {NoData} \cup {transcription_result(text) : text \in Texts}

InitSteps ==
    /\ job = [AnalysisTask EXCEPT !.status = "processing"]
    /\ \E lang \in Languages : options = [language |-> lang]
    /\ \E e \in ExtractionDataInputs :
         \/ /\ pc = "transcription"
            /\ step_results = [extraction |-> StepResult("extraction", TRUE, e, NoError)]
         \/ \E t \in TranscriptionDataInputs :
              /\ pc = "parallel"
              /\ step_results =
                     [extraction |-> StepResult("extraction", TRUE, e, NoError),
                      transcription |-> StepResult("transcription", TRUE, t, NoError)]
    /\ exc = NoException
    /\ outcome = Outcome("running", None)
    /\ cpc = "idle"
    /\ mpc = "idle"
    /\ content_task = AnalysisTask
    /\ comment_task = AnalysisTask
    /\ comment_insights = EmptyDict
    /\ content_result = NoResult
    /\ comment_result = NoResult
    /\ cancelPc = "idle"
    /\ cancelId = None
    /\ cancelRet = None
    /\ cancels = 0
    /\ active_connections = {}
    /\ broken = {}
    /\ delivered = [w \in Observers |-> <<>>]
    /\ log = <<>>
    /\ llm = LlmIdle
    /\ ws = WsIdle

NextSteps ==
    \/ RunTranscription
    \/ StartParallel
    \/ ContentSelect
    \/ ContentMark
    \/ ContentAnalyze
    \/ CommentStart
    \/ CommentRead
    \/ CommentWrite
    \/ Gather
    \/ RunFinalization
    \/ MarkCompleted
    \/ NotifyCompleted
    \/ ExceptStatus
    \/ ExceptNotify

SpecSteps == InitSteps /\ [][NextSteps]_vars

\* ------------------------------------------- one run, no cancel_task
\* run_analysis with its branches and the job's observers; nobody calls
\* cancel_task and the job store does not fail
NextRun ==
    \/ StartRun
    \/ MarkProcessing
    \/ RunExtraction
    \/ RunTranscription
    \/ StartParallel
    \/ ContentSelect
    \/ ContentMark
    \/ ContentAnalyze
    \/ CommentStart
    \/ CommentRead
    \/ CommentWrite
    \/ Gather
    \/ RunFinalization
    \/ MarkCompleted
    \/ NotifyCompleted
    \/ ExceptStatus
    \/ ExceptNotify
    \/ Connect
    \/ PeerGone

SpecRun == Init /\ [][NextRun]_vars

\* ------------------------------------------- job-store faults
\* _update_task_status opens a session, executes one UPDATE and commits; it
\* has no try/except, so what the session raises reaches run_analysis.
StoreError ==
    [type |-> "OperationalError", msg |-> <<"store_failed">>, retry_after |-> None]

\* the first _update_task_status of run_analysis raises: inside the try block
MarkProcessingRaises ==
    /\ pc = "mark_processing"
    /\ exc' = StoreError
    /\ log' = Append(log, Ev("raised", StoreError, "update_task_status"))
    /\ pc' = "except"
    /\ UNCHANGED <<job, options, step_results, outcome, branchVars, cancelVars,
                   wsVars>>
    /\ UNCHANGED llm
    /\ UNCHANGED ws

\* the _update_task_status(COMPLETED) raises: inside the try block
MarkCompletedRaises ==
    /\ pc = "mark_completed"
    /\ exc' = StoreError
    /\ log' = Append(log, Ev("raised", StoreError, "update_task_status"))
    /\ pc' = "except"
    /\ UNCHANGED <<job, options, step_results, outcome, branchVars, cancelVars,
                   wsVars>>
    /\ UNCHANGED llm
    /\ UNCHANGED ws

\* the _update_task_status(FAILED) of the except clause raises: nothing
\* catches it, send_task_failed is not reached and the new exception leaves
\* run_analysis
ExceptStatusRaises ==
    /\ pc = "except"
    /\ log' = Append(log, Ev("raised", StoreError, "update_task_status"))
    /\ outcome' = Outcome("raised", StoreError.type)
    /\ pc' = "done"
    /\ UNCHANGED <<job, options, step_results, exc, branchVars, cancelVars,
                   wsVars>>
    /\ UNCHANGED llm
    /\ UNCHANGED ws

\* one run with a job store that can fail and no cancel_task call
NextFaults ==
    \/ StartRun
    \/ MarkProcessing
    \/ MarkProcessingRaises
    \/ RunExtraction
    \/ RunTranscription
    \/ StartParallel
    \/ ContentSelect
    \/ ContentMark
    \/ ContentAnalyze
    \/ CommentStart
    \/ CommentRead
    \/ CommentWrite
    \/ Gather
    \/ RunFinalization
    \/ MarkCompleted
    \/ MarkCompletedRaises
    \/ NotifyCompleted
    \/ ExceptStatus
    \/ ExceptStatusRaises
    \/ ExceptNotify
    \/ Connect
    \/ PeerGone

SpecFaults == Init /\ [][NextFaults]_vars

\* ------------------------------- the report functions on their own
\* _run_finalization_step called with succeeded prior results whose analysis
\* payloads (under the "analysis" key the report reads) carry the inputs of
\* the report's pure functions: topic and theme lists for
\* _calculate_topic_overlap, transcripts of several lengths and durations for
\* the speaking rate.
TopicLists == UNION {[1..k -> {"AI", "ai", "Tech"}] : k \in 0..MaxTopics}

TopicContentResults ==
    {StepResult("content_analysis", TRUE,
                [analysis |-> [topic_analysis |-> [main_topics |-> a]]], NoError) :
        a \in TopicLists}

ThemeCommentResults ==
    {StepResult("comment_analysis", TRUE, [analysis |-> [key_themes |-> b]], NoError) :
        b \in TopicLists}

\* transcription results of 0..MaxRateWords words lasting 0, 1 or 2 seconds
RateTranscriptionResults ==
    {StepResult("transcription", TRUE,
                [language |-> "en", duration |-> d, word_count |-> k,
                 full_text |-> [i \in 1..k |-> "w"]],
                NoError) : k \in 0..MaxRateWords, d \in 0..2}

ReportInputs ==
    {StepResultsOf(StepResult("extraction", TRUE, extraction_data(0), NoError),
                   StepResult("transcription", TRUE, transcription_result(<<"w">>), NoError),
                   c, m) :
        c \in TopicContentResults, m \in ThemeCommentResults}
    \cup
    {StepResultsOf(StepResult("extraction", TRUE, extraction_data(0), NoError), t,
                   StepResult("content_analysis", TRUE, [analysis |-> EmptyDict], NoError),
                   StepResult("comment_analysis", TRUE, [analysis |-> EmptyDict], NoError)) :
        t \in RateTranscriptionResults}

InitReport ==
    /\ job = [AnalysisTask EXCEPT !.status = "processing"]
    /\ pc = "finalization"
    /\ \E lang \in Languages : options = [language |-> lang]
    /\ step_results \in ReportInputs
    /\ exc = NoException
    /\ outcome = Outcome("running", None)
    /\ cpc = "idle"
    /\ mpc = "idle"
    /\ content_task = AnalysisTask
    /\ comment_task = AnalysisTask
    /\ comment_insights = EmptyDict
    /\ content_result = NoResult
    /\ comment_result = NoResult
    /\ cancelPc = "idle"
    /\ cancelId = None
    /\ cancelRet = None
    /\ cancels = 0
    /\ active_connections = {}
    /\ broken = {}
    /\ delivered = [w \in Observers |-> <<>>]
    /\ log = <<>>
    /\ llm = LlmIdle
    /\ ws = WsIdle

NextReport ==
    \/ RunFinalization
    \/ MarkCompleted
    \/ NotifyCompleted

SpecReport == InitReport /\ [][NextReport]_vars

\* ------------------------------------ LLMContentAnalyzer._make_api_call
\* self.max_retries and self.retry_delay (seconds) of LLMContentAnalyzer
max_retries == 3

retry_delay == 1

\* the prompts LLMContentAnalyzer sends and the max_tokens of each call site
ApiCallSites ==
    [key_points |-> 1000, topics |-> 800, sentiment |-> 800, structure |-> 600,
     summary |-> 200, recommendations |-> 400]

\* what one `await self.client.chat.completions.create(...)` can do: return a
\* response with content, return one whose content is None, or raise
ApiResponses == {"content", "empty", "raises"}

\* a loop that tries once more than max_retries allows
api_last_attempt_late(attempt) == attempt = max_retries

\* if attempt == self.max_retries - 1
api_last_attempt(attempt) == attempt = max_retries - 1

\* _make_api_call(prompt, max_tokens) is called
ApiCall ==
    /\ llm.pc = "idle"
    /\ \E p \in DOMAIN ApiCallSites :
         llm' = [LlmIdle EXCEPT !.pc = "attempt", !.prompt = p,
                                !.max_tokens = ApiCallSites[p],
                                !.result = Outcome("running", None)]
    /\ UNCHANGED <<job, pc, runVars, branchVars, cancelVars, wsVars, log>>
    /\ UNCHANGED ws

\* one iteration of `for attempt in range(self.max_retries)` up to its return,
\* raise or sleep; the loop's end without an iteration left is the final raise
ApiAttempt ==
    /\ llm.pc = "attempt"
    /\ IF llm.attempt >= max_retries
       THEN llm' = [llm EXCEPT !.pc = "done",
                               !.result = Outcome("raised", "ExternalServiceError")]
       ELSE \E r \in ApiResponses :
              LET tried == [llm EXCEPT !.attempts = Append(@, r)] IN
              llm' = IF r = "content"
                     THEN [tried EXCEPT !.pc = "done",
                                        !.result = Outcome("returned", None)]
                     ELSE IF api_last_attempt(llm.attempt)
                     THEN [tried EXCEPT !.pc = "done",
                                        !.result = Outcome("raised", "ExternalServiceError")]
                     ELSE [tried EXCEPT !.pc = "sleep"]
    /\ UNCHANGED <<job, pc, runVars, branchVars, cancelVars, wsVars, log>>
    /\ UNCHANGED ws

\* await asyncio.sleep(self.retry_delay * (2**attempt)) returns
ApiSleep ==
    /\ llm.pc = "sleep"
    /\ llm' = [llm EXCEPT !.sleeps = Append(@, retry_delay * (2 ^ llm.attempt)),
                          !.attempt = @ + 1,
                          !.pc = "attempt"]
    /\ UNCHANGED <<job, pc, runVars, branchVars, cancelVars, wsVars, log>>
    /\ UNCHANGED ws

NextApi ==
    \/ ApiCall
    \/ ApiAttempt
    \/ ApiSleep

SpecApi == Init /\ [][NextApi]_vars

SpecApiFair == SpecApi /\ WF_vars(ApiAttempt) /\ WF_vars(ApiSleep)

\* ------------------------------ WebSocketManager and websocket_endpoint
\* list.remove(c): the first occurrence of c is taken out
RECURSIVE ListRemove(_, _)
ListRemove(list, c) ==
    IF list = <<>> THEN <<>>
    ELSE IF Head(list) = c THEN Tail(list)
    ELSE <<Head(list)>> \o ListRemove(Tail(list), c)

\* the connections registered for task_id (none when the key is absent)
Registered(reg, heap, task_id) ==
    IF task_id \in DOMAIN reg THEN Range(heap[reg[task_id]]) ELSE {}

\* send_message's second loop:
\*   for connection in disconnected:
\*       self.active_connections[task_id].remove(connection)
\* The subscript raises KeyError when the key is gone and remove raises
\* ValueError when the connection is no longer in the list; neither is caught.
RECURSIVE RemoveDisconnected(_, _, _, _, _)
RemoveDisconnected(reg, heap, task_id, todo, removed) ==
    IF todo = <<>> THEN [heap |-> heap, removed |-> removed, raised |-> None]
    ELSE IF task_id \notin DOMAIN reg
    THEN [heap |-> heap, removed |-> removed, raised |-> "KeyError"]
    ELSE IF Head(todo) \notin Range(heap[reg[task_id]])
    THEN [heap |-> heap, removed |-> removed, raised |-> "ValueError"]
    ELSE RemoveDisconnected(reg,
                            [heap EXCEPT ![reg[task_id]] = ListRemove(@, Head(todo))],
                            task_id, Tail(todo), Append(removed, Head(todo)))

\* send_message from one await to the next: the list iterator yields the
\* element at its index in the list as it is now, or the loop ends and the
\* second loop runs to the return or the raise
Advance(r, reg, heap) ==
    IF r.i <= Len(heap[r.list])
    THEN [send |-> [r EXCEPT !.pc = "await", !.conn = heap[r.list][r.i]],
          heap |-> heap]
    ELSE LET out == RemoveDisconnected(reg, heap, r.task, r.disconnected, <<>>)
         IN  [send |-> [r EXCEPT !.pc = "done", !.conn = None,
                                 !.removed = out.removed,
                                 !.raised = out.raised],
              heap |-> out.heap]

\* the next state of the manager; as history, each call in progress keeps the
\* connections that have been registered for its task id ever since it started
Put_ws(reg, heap, sock, send) ==
    ws' = [active_connections |-> reg, heap |-> heap, sock |-> sock,
           send |-> [x \in Senders |->
                        IF send[x].pc = "await"
                        THEN [send[x] EXCEPT
                                 !.stayed = @ \cap Registered(reg, heap, send[x].task)]
                        ELSE send[x]]]

\* websocket_endpoint up to its receive loop: WebSocketManager.connect accepts
\* the socket, creates the task's list if the key is absent and appends
WsConnect(websocket, task_id) ==
    /\ ws.sock[websocket].state = "new"
    /\ LET reg  == ws.active_connections
           heap == ws.heap
           reg1 == IF task_id \in DOMAIN reg THEN reg
                   ELSE [t \in DOMAIN reg \cup {task_id} |->
                            IF t = task_id THEN Len(heap) + 1 ELSE reg[t]]
           heap0 == IF task_id \in DOMAIN reg THEN heap ELSE Append(heap, <<>>)
           heap1 == [heap0 EXCEPT ![reg1[task_id]] = Append(@, websocket)]
       IN  Put_ws(reg1, heap1,
                  [ws.sock EXCEPT ![websocket] = [state |-> "open", task |-> task_id]],
                  ws.send)
    /\ UNCHANGED <<job, pc, runVars, branchVars, cancelVars, wsVars, log, llm>>

\* the client goes away: send_text on the socket raises from now on and the
\* endpoint's receive_text raises WebSocketDisconnect
WsPeerGone(websocket) ==
    /\ ws.sock[websocket].state = "open"
    /\ Put_ws(ws.active_connections, ws.heap,
              [ws.sock EXCEPT ![websocket].state = "gone"], ws.send)
    /\ UNCHANGED <<job, pc, runVars, branchVars, cancelVars, wsVars, log, llm>>

\* WebSocketManager.disconnect(task_id, websocket)
disconnect(reg, heap, task_id, websocket) ==
    IF task_id \notin DOMAIN reg THEN [reg |-> reg, heap |-> heap]
    ELSE LET heap1 == IF websocket /= None
                      THEN [heap EXCEPT ![reg[task_id]] = ListRemove(@, websocket)]
                      ELSE heap
         IN  IF heap1[reg[task_id]] = <<>>
             THEN [reg |-> [t \in DOMAIN reg \ {task_id} |-> reg[t]], heap |-> heap1]
             ELSE [reg |-> reg, heap |-> heap1]

\* websocket_endpoint's except WebSocketDisconnect clause:
\*   websocket_manager.disconnect(task_id)
WsDisconnect(websocket) ==
    /\ ws.sock[websocket].state = "gone"
    /\ LET out == disconnect(ws.active_connections, ws.heap,
                             ws.sock[websocket].task, None)
       IN  Put_ws(out.reg, out.heap,
                  [ws.sock EXCEPT ![websocket].state = "closed"], ws.send)
    /\ UNCHANGED <<job, pc, runVars, branchVars, cancelVars, wsVars, log, llm>>

\* send_message(task_id, message) up to its first await, or to its return
\* when there is nothing to send to
SendStart(x, task_id) ==
    /\ ws.send[x].pc \in {"idle", "done"}
    /\ ws.send[x].calls < MaxSends
    /\ LET reg  == ws.active_connections
           r0   == [SenderIdle EXCEPT !.task = task_id,
                                      !.calls = ws.send[x].calls + 1,
                                      !.closed_before =
                                          {s \in Sockets : ws.sock[s].state = "closed"}]
       IN  IF task_id \notin DOMAIN reg
           THEN Put_ws(reg, ws.heap, ws.sock,
                       [ws.send EXCEPT ![x] = [r0 EXCEPT !.pc = "done"]])
           ELSE LET r1  == [r0 EXCEPT !.list = reg[task_id], !.i = 1,
                                      !.stayed = Registered(reg, ws.heap, task_id)]
                    out == Advance(r1, reg, ws.heap)
                IN  Put_ws(reg, out.heap, ws.sock,
                           [ws.send EXCEPT ![x] = out.send])
    /\ UNCHANGED <<job, pc, runVars, branchVars, cancelVars, wsVars, log, llm>>

\* await connection.send_text(...) is over: it raised if the peer is gone,
\* and the call runs on to its next await or to its end
SendResume(x) ==
    /\ ws.send[x].pc = "await"
    /\ LET r      == ws.send[x]
           failed == ws.sock[r.conn].state \in {"gone", "closed"}
           r1     == [r EXCEPT !.attempted = @ \cup {r.conn},
                               !.disconnected = IF failed THEN Append(@, r.conn) ELSE @,
                               !.i = @ + 1]
           out    == Advance(r1, ws.active_connections, ws.heap)
       IN  Put_ws(ws.active_connections, out.heap, ws.sock,
                  [ws.send EXCEPT ![x] = out.send])
    /\ UNCHANGED <<job, pc, runVars, branchVars, cancelVars, wsVars, log, llm>>

NextWs ==
    \/ \E websocket \in Sockets, task_id \in WsTasks : WsConnect(websocket, task_id)
    \/ \E websocket \in Sockets : WsPeerGone(websocket)
    \/ \E websocket \in Sockets : WsDisconnect(websocket)
    \/ \E x \in Senders, task_id \in WsTasks : SendStart(x, task_id)
    \/ \E x \in Senders : SendResume(x)

SpecWs == Init /\ [][NextWs]_vars

\* --------------------------- app.tasks.analysis_task.run_analysis(task_id)
\* The message literals of its except clauses and its last current_step:
\*   "input_validation_failed" = "输入验证失败"
\*   "external_service_error"  = "外部服务错误"
\*   "data_extraction_failed"  = "数据提取失败"
\*   "extraction_completed"    = "数据提取完成"
\* Its collaborator calls and their results are recorded in the log:
\*   Ev("call", name, "analysis_task") when the call is made,
\*   Ev("result", value, name) when it returns, Ev("raised", e, name) when
\*   it raises.
TaskSrc == "analysis_task"

\* the attributes of the object task_service.get_task returns: the mapped
\* class AnalysisTask has a video_url column and no youtube_url; create_task
\* builds its rows with youtube_url=...
TaskRowShapes == {{"video_url"}, {"video_url", "youtube_url"}}

Exception(type, msg) == [type |-> type, msg |-> msg, retry_after |-> None]

\* the classes `except ExternalServiceError` catches
ExternalServiceErrors == {"ExternalServiceError", "YouTubeAPIError", "AudioDownloadError"}

\* what each collaborator of run_analysis can raise
TaskExceptions(name) ==
    CASE name = "YouTubeExtractor" ->
            {Exception("ValidationError", <<"api_key_required">>)}
      [] name = "extract_video_id" ->
            {Exception("ValidationError", <<"video_id">>)}
      [] name = "get_video_info" -> ExtractionExceptions("video_info")
      [] name = "download_audio" ->
            {Exception("AudioDownloadError", <<"audio">>)}
      [] name = "get_comments" -> ExtractionExceptions("comments")
      [] OTHER -> {}

\* the f-string prefix of the except clause that catches e
except_prefix(e) ==
    IF e.type = "ValidationError" THEN <<"input_validation_failed">>
    ELSE IF e.type \in ExternalServiceErrors THEN <<"external_service_error">>
    ELSE <<"data_extraction_failed">>

\* the value of the last result a collaborator returned
ResultOf(name) ==
    LET I == {i \in 1..Len(log) : log[i].kind = "result" /\ log[i].src = name} IN
    log[CHOOSE i \in I : \A k \in I : k <= i].v

\* run_analysis has no return statement and its except clauses do not
\* re-raise: every call that ends returns None
task_return_value(extraction_result) == None

\* task = await task_service.get_task(task_id); youtube_url = task.youtube_url
TaskStart ==
    /\ pc = "idle"
    /\ \E id \in {TaskId, MissingId}, attrs \in TaskRowShapes :
         LET task == get_task(id, job) IN
         /\ log' = <<Ev("call", "get_task", TaskSrc)>>
         /\ IF task = {}
            THEN /\ exc' = Exception("ValidationError", <<"task_not_found">>)
                 /\ pc' = "t_except"
            ELSE IF "youtube_url" \notin attrs
            THEN /\ exc' = Exception("AttributeError", <<"youtube_url">>)
                 /\ pc' = "t_except"
            ELSE /\ exc' = NoException
                 /\ pc' = "t_video_id"
    /\ outcome' = Outcome("running", None)
    /\ delivered' = [w \in Observers |-> <<>>]
    /\ UNCHANGED <<job, options, step_results, branchVars, cancelVars,
                   active_connections, broken>>
    /\ UNCHANGED llm
    /\ UNCHANGED ws

\* one stage of the try block: update_task_status(PROCESSING, step, progress),
\* send_progress_update(progress), then the collaborator calls of `names` in
\* order; `f` is the call that raises `e` ("none": no call raises) and
\* `value` what the last call returns
TaskStage(step, progress, names, f, e, value, next) ==
    LET raised == progress_raises(active_connections, broken)
        made == IF raised THEN <<>>
                ELSE IF f = "none" THEN names
                ELSE SubSeq(names, 1, CHOOSE i \in 1..Len(names) : names[i] = f) IN
    /\ job' = update_task_status(job, "processing", <<step>>, progress, NoError)
    /\ active_connections' = send_progress_update(active_connections, broken)
    /\ log' = (((log \o <<Ev("status", "processing", TaskSrc),
                          Tick(progress, TaskSrc)>>)
                    \o [i \in 1..Len(made) |-> Ev("call", made[i], TaskSrc)])
                    \o (IF raised THEN <<>>
                        ELSE IF f = "none"
                        THEN <<Ev("result", value, names[Len(names)])>>
                        ELSE <<Ev("raised", e, f)>>))
    /\ IF raised
       THEN exc' = SendError /\ pc' = "t_except"
       ELSE IF f = "none"
       THEN exc' = exc /\ pc' = next
       ELSE exc' = e /\ pc' = "t_except"

\* extractor = YouTubeExtractor(); video_id = extractor.extract_video_id(youtube_url)
TaskVideoId ==
    /\ pc = "t_video_id"
    /\ \E f \in {"none", "YouTubeExtractor", "extract_video_id"} :
       \E e \in IF f = "none" THEN {NoException} ELSE TaskExceptions(f) :
         TaskStage("init_extractor", 0, <<"YouTubeExtractor", "extract_video_id">>,
                   f, e, "v1", "t_video_info")
    /\ UNCHANGED <<options, step_results, outcome, branchVars, cancelVars,
                   broken, delivered>>
    /\ UNCHANGED llm
    /\ UNCHANGED ws

\* video_info = await extractor.get_video_info(video_id)
TaskVideoInfo ==
    /\ pc = "t_video_info"
    /\ \E f \in {"none", "get_video_info"} :
       \E e \in IF f = "none" THEN {NoException} ELSE TaskExceptions(f) :
         TaskStage("video_info", 10, <<"get_video_info">>, f, e, VideoInfo, "t_audio")
    /\ UNCHANGED <<options, step_results, outcome, branchVars, cancelVars,
                   broken, delivered>>
    /\ UNCHANGED llm
    /\ UNCHANGED ws

\* audio_file_path = await extractor.download_audio(video_id)
TaskAudio ==
    /\ pc = "t_audio"
    /\ \E f \in {"none", "download_audio"} :
       \E e \in IF f = "none" THEN {NoException} ELSE TaskExceptions(f) :
         TaskStage("download_audio", 30, <<"download_audio">>, f, e, "v1.wav",
                   "t_comments")
    /\ UNCHANGED <<options, step_results, outcome, branchVars, cancelVars,
                   broken, delivered>>
    /\ UNCHANGED llm
    /\ UNCHANGED ws

\* comments = await extractor.get_comments(video_id, max_results=1000)
TaskComments ==
    /\ pc = "t_comments"
    /\ \E f \in {"none", "get_comments"}, n \in 0..MaxComments :
       \E e \in IF f = "none" THEN {NoException} ELSE TaskExceptions(f) :
         TaskStage("comments", 60, <<"get_comments">>, f, e, n, "t_transcribe")
    /\ UNCHANGED <<options, step_results, outcome, branchVars, cancelVars,
                   broken, delivered>>
    /\ UNCHANGED llm
    /\ UNCHANGED ws

\* what transcribe_audio_task raises when its call named f fails
transcription_exception(f) ==
    IF f = "validate" THEN Exception("ValidationError", <<f>>)
    ELSE Exception("Exception", <<f>>)

\* transcription_result = await transcribe_audio_task(task_id, audio_file_path)
TaskTranscribe ==
    /\ pc = "t_transcribe"
    /\ \E f \in TranscriptionFailPoints([language |-> None]) \cup {"none"},
          text \in Texts :
         LET raised == progress_raises(active_connections, broken)
             row == update_task_status(job, "processing", <<"transcribe">>, 75, NoError) IN
         /\ job' = IF raised THEN row ELSE transcribe_audio_task_row(row, f, text)
         /\ log' = (log \o <<Ev("status", "processing", TaskSrc), Tick(75, TaskSrc)>>)
                       \o (IF raised THEN <<>>
                           ELSE (<<Ev("call", "transcribe_audio_task", TaskSrc)>>
                                   \o Ticks(TranscriptionTaskTicks(f), "transcription"))
                                   \o (IF f = "none"
                                       THEN <<Ev("result", transcription_result(text),
                                                 "transcribe_audio_task")>>
                                       ELSE <<Ev("raised", transcription_exception(f),
                                                 "transcribe_audio_task")>>))
         /\ IF raised
            THEN exc' = SendError /\ pc' = "t_except"
            ELSE IF f = "none"
            THEN exc' = exc /\ pc' = "t_content"
            ELSE exc' = transcription_exception(f) /\ pc' = "t_except"
    /\ active_connections' = send_progress_update(active_connections, broken)
    /\ UNCHANGED <<options, step_results, outcome, branchVars, cancelVars,
                   broken, delivered>>
    /\ UNCHANGED llm
    /\ UNCHANGED ws

\* content_analysis_result = await analyze_content_task(task_id,
\*     transcription_result, {...video_info fields...})
TaskContent ==
    /\ pc = "t_content"
    /\ \E f \in {"none", "analyze"} :
         LET raised == progress_raises(active_connections, broken)
             row == update_task_status(job, "processing", <<"content_analysis">>, 85, NoError)
             e0 == content_exception(ResultOf("transcribe_audio_task"), f)
             e == Exception(e0.type, e0.msg)
             error == [error |-> content_error_message(e0)]
             m == TaskFailedMessage(error) IN
         /\ content_task' = IF raised THEN content_task ELSE row
         /\ job' = IF raised THEN row
                   ELSE content_finish_row(content_mark_row(row), row, e0)
         /\ log' = (log \o <<Ev("status", "processing", TaskSrc), Tick(85, TaskSrc)>>)
                       \o (IF raised THEN <<>>
                           ELSE <<Ev("call", "analyze_content_task", TaskSrc),
                                  Tick(85, "content")>>
                                  \o (IF e0 = NoException
                                      THEN <<Tick(95, "content"),
                                             Ev("result", ContentPayload,
                                                "analyze_content_task")>>
                                      ELSE <<NotifyEv("task_failed", error, "content",
                                                      active_connections \ broken),
                                             Ev("raised", e, "analyze_content_task")>>))
         /\ IF ~raised /\ e0 /= NoException
            THEN /\ active_connections' = send_message(active_connections, broken, m)
                 /\ delivered' = Receive(delivered, active_connections, broken, m)
            ELSE /\ active_connections' = send_progress_update(active_connections, broken)
                 /\ delivered' = delivered
         /\ IF raised
            THEN exc' = SendError /\ pc' = "t_except"
            ELSE IF e0 = NoException
            THEN exc' = exc /\ pc' = "t_store"
            ELSE exc' = e /\ pc' = "t_except"
    /\ UNCHANGED <<options, step_results, outcome, cpc, mpc, comment_task,
                   comment_insights, content_result, comment_result, cancelVars,
                   broken>>
    /\ UNCHANGED llm
    /\ UNCHANGED ws

\* the extraction_result dict run_analysis builds from its locals
extraction_result ==
    [video_info |-> ResultOf("get_video_info"),
     audio_file_path |-> ResultOf("download_audio"),
     comments |-> ResultOf("get_comments"),
     transcription |-> ResultOf("transcribe_audio_task"),
     content_analysis |-> ResultOf("analyze_content_task"),
     extraction_metadata |-> [total_comments |-> ResultOf("get_comments")]]

\* task.result_data = extraction_result; commit;
\* update_task_status(COMPLETED, "数据提取完成", progress=100)
TaskStore ==
    /\ pc = "t_store"
    /\ LET raised == progress_raises(active_connections, broken)
           row == update_task_status(job, "processing", <<"collect_results">>, 95, NoError) IN
         /\ job' = IF raised THEN row
                   ELSE update_task_status(
                            [row EXCEPT !.result_data = extraction_result],
                            "completed", <<"extraction_completed">>, 100, NoError)
         /\ log' = (log \o <<Ev("status", "processing", TaskSrc), Tick(95, TaskSrc)>>)
                       \o (IF raised THEN <<>>
                           ELSE <<Ev("status", "completed", TaskSrc)>>)
         /\ IF raised
            THEN exc' = SendError /\ pc' = "t_except"
            ELSE exc' = exc /\ pc' = "t_notify"
    /\ active_connections' = send_progress_update(active_connections, broken)
    /\ UNCHANGED <<options, step_results, outcome, branchVars, cancelVars,
                   broken, delivered>>
    /\ UNCHANGED llm
    /\ UNCHANGED ws

\* await send_task_completed(task_id, extraction_result), the last statement
\* of the try block
TaskNotifyCompleted ==
    /\ pc = "t_notify"
    /\ LET m == TaskCompletedMessage(extraction_result)
           raised == send_message_raises(active_connections, broken, m) IN
         /\ active_connections' = send_message(active_connections, broken, m)
         /\ delivered' = Receive(delivered, active_connections, broken, m)
         /\ log' = Append(log, NotifyEv("task_completed", extraction_result, TaskSrc,
                                        active_connections \ broken))
                       \o (IF raised THEN <<>>
                           ELSE <<Ev("return", task_return_value(extraction_result),
                                     TaskSrc)>>)
         /\ IF raised
            THEN exc' = SendError /\ pc' = "t_except" /\ outcome' = outcome
            ELSE exc' = exc /\ pc' = "done" /\ outcome' = Outcome("returned", None)
    /\ UNCHANGED <<job, options, step_results, branchVars, cancelVars, broken>>
    /\ UNCHANGED llm
    /\ UNCHANGED ws

\* the except clauses: update_task_status(FAILED, error_message=f"...: {str(e)}")
TaskExceptStatus ==
    /\ pc = "t_except"
    /\ job' = update_task_status(job, "failed", NoError, NoProgress,
                                 except_prefix(exc) \o exc.msg)
    /\ log' = Append(log, Ev("status", "failed", TaskSrc))
    /\ pc' = "t_except_notify"
    /\ UNCHANGED <<runVars, branchVars, cancelVars, wsVars>>
    /\ UNCHANGED llm
    /\ UNCHANGED ws

\* await send_task_failed(task_id, {"message": f"...: {str(e)}"}); the clause
\* ends without a raise and `finally: pass` follows
TaskExceptNotify ==
    /\ pc = "t_except_notify"
    /\ LET error == [message |-> except_prefix(exc) \o exc.msg]
           m == TaskFailedMessage(error)
           raised == send_message_raises(active_connections, broken, m) IN
         /\ active_connections' = send_message(active_connections, broken, m)
         /\ delivered' = Receive(delivered, active_connections, broken, m)
         /\ log' = Append(log, NotifyEv("task_failed", error, TaskSrc,
                                        active_connections \ broken))
                       \o (IF raised THEN <<>>
                           ELSE <<Ev("return", task_return_value(EmptyDict), TaskSrc)>>)
         /\ outcome' = IF raised THEN Outcome("raised", SendError.type)
                       ELSE Outcome("returned", None)
    /\ pc' = "done"
    /\ UNCHANGED <<job, options, step_results, exc, branchVars, cancelVars, broken>>
    /\ UNCHANGED llm
    /\ UNCHANGED ws

NextTask ==
    \/ TaskStart
    \/ TaskVideoId
    \/ TaskVideoInfo
    \/ TaskAudio
    \/ TaskComments
    \/ TaskTranscribe
    \/ TaskContent
    \/ TaskStore
    \/ TaskNotifyCompleted
    \/ TaskExceptStatus
    \/ TaskExceptNotify
    \/ Connect
    \/ PeerGone

SpecTask == Init /\ [][NextTask]_vars

\* =========================================================== properties
StepIdx(s) == {i \in 1..Len(log) : log[i].kind = "step" /\ log[i].v = s}

StatusIdx(st) == {i \in 1..Len(log) : log[i].kind = "status" /\ log[i].v = st}

ProgressIdx == {i \in 1..Len(log) : log[i].kind = "progress"}

FailedIdx(src) == {i \in 1..Len(log) : log[i].kind = "task_failed" /\ log[i].src = src}

CompletedIdx == {i \in 1..Len(log) : log[i].kind = "task_completed"}

Invoked(s) == StepIdx(s) /= {}

Returned(s) == s \in DOMAIN step_results

Succeeded(s) == Returned(s) /\ step_results[s].success

Failed(s) == Returned(s) /\ ~step_results[s].success

StepOrder == <<"extraction", "transcription", "parallel", "finalization">>

\* C1: in any run the job is marked PROCESSING before any step is invoked;
\* the steps are invoked at most once each, in the order extraction,
\* transcription, parallel analysis, finalization; a step is invoked only
\* after the previous one was, transcription only if extraction returned
\* success and parallel analysis only if transcription returned success; once
\* extraction has returned a failure no later step is invoked.
C1_StepOrder ==
    /\ \A s \in Range(StepOrder) : Cardinality(StepIdx(s)) <= 1
    /\ \A a, b \in 1..Len(StepOrder) :
         a < b => /\ \A i \in StepIdx(StepOrder[a]), j \in StepIdx(StepOrder[b]) : i < j
                  /\ Invoked(StepOrder[b]) => Invoked(StepOrder[a])
    /\ (\E s \in Range(StepOrder) : Invoked(s))
         => /\ log[1] = Ev("status", "processing", "orchestrator")
            /\ StepIdx("extraction") = {2}
    /\ Invoked("transcription") => Succeeded("extraction")
    /\ Invoked("parallel") => Succeeded("transcription")
    /\ Invoked("finalization") => pc /= "gather" /\ Returned("content_analysis")
    /\ Failed("extraction")
         => ~Invoked("transcription") /\ ~Invoked("parallel") /\ ~Invoked("finalization")

\* a complete run: all four steps were invoked and run_analysis returned
C1_Witness ==
    /\ pc = "done"
    /\ outcome.kind = "returned"
    /\ \A s \in Range(StepOrder) : Invoked(s)

FatalSteps == {"extraction", "transcription", "finalization"}

\* C2: when extraction, transcription or finalization returned success=false,
\* run_analysis never writes COMPLETED and never returns normally; it writes
\* FAILED (after that write the row holds FAILED, or CANCELLED if a cancel
\* overwrote it), only then sends the failure notification, exactly once, and
\* ends by raising ExternalServiceError.
C2_FailurePath ==
    (\E s \in FatalSteps : Failed(s)) =>
        /\ StatusIdx("completed") = {}
        /\ CompletedIdx = {}
        /\ outcome.kind /= "returned"
        /\ pc \in {"except", "except_notify", "done"}
        /\ Cardinality(FailedIdx("orchestrator")) <= 1
        /\ \A i \in FailedIdx("orchestrator") : \E j \in StatusIdx("failed") : j < i
        /\ pc \in {"except_notify", "done"} => Cardinality(StatusIdx("failed")) = 1
        /\ pc = "except_notify" => job.status \in {"failed", "cancelled"}
        /\ pc = "except" => FailedIdx("orchestrator") = {} /\ StatusIdx("failed") = {}
        /\ pc = "except_notify" => FailedIdx("orchestrator") = {}
        /\ pc = "done" => /\ outcome = Outcome("raised", "ExternalServiceError")
                          /\ Cardinality(FailedIdx("orchestrator")) = 1
                          /\ log[Len(log)].kind = "task_failed"

\* a run that ended after transcription returned success=false
C2_Witness ==
    /\ pc = "done"
    /\ Failed("transcription")
    /\ outcome.kind = "raised"
    /\ FailedIdx("orchestrator") /= {}

Report == step_results["finalization"].data

\* C3: if content analysis fails while extraction, transcription and comment
\* analysis succeed, finalization is still invoked, the report's
\* content_insights is empty, its audience_feedback is the comment analysis
\* payload, and the run writes COMPLETED and never FAILED.
C3_PartialFailureReport ==
    (/\ pc = "done"
     /\ Succeeded("extraction")
     /\ Succeeded("transcription")
     /\ Failed("content_analysis")
     /\ Succeeded("comment_analysis"))
    => /\ Invoked("finalization")
       /\ Report.content_insights = EmptyDict
       /\ Report.audience_feedback = step_results["comment_analysis"].data
       /\ StatusIdx("completed") /= {}
       /\ StatusIdx("failed") = {}
       /\ outcome.kind = "returned"

\* C4: the percentages of the progress notifications sent during one run are
\* within 0..100 and never decrease, and no branch of the parallel step sends
\* a tick between the orchestrator's 60% and 85% ticks.
C4_MonotoneProgress ==
    /\ \A i \in ProgressIdx : log[i].v \in 0..100
    /\ \A i, j \in ProgressIdx : i < j => log[i].v <= log[j].v
    /\ \A i \in ProgressIdx : log[i].src \notin {"content", "comment"}

Joined == pc \in {"finalization", "mark_completed", "notify_completed"}
              \/ Returned("content_analysis") \/ Returned("comment_analysis")

\* C5: the two branches are started together; the parallel step returns only
\* when both have finished, with the StepResult each branch produced; a branch
\* that failed yields success=false with an error and no data, and a branch
\* whose analysis succeeded yields success=true with its payload whatever the
\* other branch did.
C5_ParallelJoin ==
    /\ (cpc = "idle") <=> (mpc = "idle")
    /\ Joined =>
         /\ cpc = "done" /\ mpc = "done"
         /\ step_results["content_analysis"] = content_result
         /\ step_results["comment_analysis"] = comment_result
         /\ content_result.step = "content_analysis"
         /\ comment_result.step = "comment_analysis"
         /\ \A r \in {content_result, comment_result} :
              IF r.success THEN Truthy(r.data) /\ r.error = NoError
                           ELSE r.data = NoData /\ r.error /= NoError
         /\ (\E i \in ProgressIdx : log[i] = Tick(95, "content"))
              => content_result = StepResult("content_analysis", TRUE, ContentPayload, NoError)
         /\ Truthy(comment_insights)
              => comment_result = StepResult("comment_analysis", TRUE, comment_insights, NoError)

\* the parallel step has returned with a failed content branch and the
\* successful result of the comment branch
C5_Witness ==
    /\ pc = "finalization"
    /\ ~content_result.success
    /\ comment_result.success
    /\ Truthy(step_results["comment_analysis"].data)

\* C6: a job whose persisted status is COMPLETED, FAILED or CANCELLED is never
\* moved back to PROCESSING.
C6_NoReentry == [][job.status \in Terminal => job'.status /= "processing"]_vars

\* C7: cancel_task writes CANCELLED only over PENDING or PROCESSING, and when
\* it returns False (job missing or already terminal) the row is unchanged.
C7_CancelOnlyFromActive ==
    [][/\ (cancelPc = "write" /\ cancelPc' = "idle")
            => job.status \in {"pending", "processing"}
       /\ (cancelRet /= "False" /\ cancelRet' = "False")
            => /\ job' = job
               /\ cancelId' = MissingId \/ job.status \in Terminal]_vars

\* C8: result_data is written only at the moment the job becomes COMPLETED,
\* with the finalization report as its value; once run_analysis has written
\* COMPLETED the row's result_data is that report.
C8_ResultWrittenOnce ==
    [][/\ job'.result_data /= job.result_data
            => /\ job.status /= "completed"
               /\ job'.status = "completed"
               /\ job'.result_data = Report
       /\ (pc = "mark_completed" /\ pc' = "notify_completed")
            => job'.result_data = Report]_vars

\* the literal that marks each fatal phase in an error message
PhaseMarkers(s) ==
    CASE s = "extraction" -> {"data_extraction_failed"}
      [] s = "transcription" -> {"audio_transcription_failed", "transcription_failed"}
      [] s = "finalization" -> {"report_generation_failed"}
      [] OTHER -> {}

NamesPhase(msg, s) == msg /= NoError /\ PhaseMarkers(s) \cap Range(msg) /= {}

\* C9: when a run has ended FAILED the persisted error_message names the
\* failing phase, and a run that ended COMPLETED leaves no error_message.
C9_ErrorMessage ==
    /\ (pc = "done" /\ outcome.kind = "raised")
         => \A s \in FatalSteps : Failed(s) => NamesPhase(job.error_message, s)
    /\ (pc = "done" /\ outcome.kind = "returned") => job.error_message = NoError

\* the steps that were executed, the parallel step counting as its two branches
Executed ==
    {s \in {"extraction", "transcription", "finalization"} : Invoked(s)}
        \cup (IF cpc /= "idle" THEN {"content_analysis"} ELSE {})
        \cup (IF mpc /= "idle" THEN {"comment_analysis"} ELSE {})

\* C10: every observer that was connected, with a live peer, when run_analysis
\* sent the failure notification has received it, carrying the error message
\* and the StepResult of exactly the executed steps.
C10_FailureDelivered ==
    \A i \in FailedIdx("orchestrator") :
        /\ log[i].v.message = exc.msg
        /\ DOMAIN log[i].v.step_results = Executed
        /\ \A w \in log[i].to :
             \E k \in 1..Len(delivered[w]) : delivered[w][k] = TaskFailedMessage(log[i].v)

\* a step result that failed because a collaborator (or an input check) failed,
\* not because a notification call raised
CollaboratorFailed(s) == Failed(s) /\ step_results[s].error /= SendError.msg

\* C11: a notification that cannot be delivered never aborts the pipeline:
\* the except clause never handles an exception of a send_* call, a run in
\* which no fatal step's collaborator failed ends by writing COMPLETED,
\* sending the completion notification and returning, and run_analysis never
\* writes FAILED after it wrote COMPLETED.
C11_DeliveryFailureHarmless ==
    /\ exc /= SendError
    /\ (pc = "done" /\ ~\E s \in FatalSteps : CollaboratorFailed(s))
         => /\ outcome = Outcome("returned", None)
            /\ StatusIdx("completed") /= {}
            /\ StatusIdx("failed") = {}
            /\ log[Len(log)].kind = "task_completed"
    /\ \A i \in StatusIdx("completed"), j \in StatusIdx("failed") : j < i

\* a run that returned although the send to an observer whose peer was gone
\* failed: the observer was dropped from the registry during the run and the
\* completion notification reached nobody
C11_Witness ==
    /\ pc = "done"
    /\ outcome.kind = "returned"
    /\ broken \ active_connections /= {}
    /\ \E i \in CompletedIdx : log[i].to = {}

\* the sentiment distribution a comment payload carries where the report
\* reads it, or where analyze_comments_task puts it
Distributions(d) ==
    {Get(d, "sentiment_distribution", EmptyDict),
     Get(Get(d, "analysis", EmptyDict), "sentiment_distribution", EmptyDict)}
        \ {EmptyDict}

AllZero(dist) == \A k \in DOMAIN dist : dist[k] = 0

PriorSteps == {"extraction", "transcription", "content_analysis", "comment_analysis"}

\* C13: whatever subset of the prior step results is absent or failed,
\* _run_finalization_step returns success with a report of exactly the seven
\* sections, and each absent or failed result is read as an empty structure
\* (no title and no comments for extraction, no language and no words for
\* transcription, empty content_insights / audience_feedback). The one input
\* left aside is a succeeded comment result with an all-zero sentiment
\* distribution, which is the case of C12.
C13_FinalizationTolerant ==
    (/\ Returned("finalization")
     /\ ~(/\ Succeeded("comment_analysis")
          /\ \E dist \in Distributions(step_results["comment_analysis"].data) :
                AllZero(dist)))
    => /\ step_results["finalization"].success
       /\ DOMAIN Report = ReportSections
       /\ ~Succeeded("extraction")
            => Report.summary.video_title = None /\ Report.summary.comment_count = 0
       /\ ~Succeeded("transcription")
            => /\ Report.transcript_analysis.language = None
               /\ Report.transcript_analysis.word_count = 0
               /\ Report.transcript_analysis.duration_seconds = 0
       /\ ~Succeeded("content_analysis") => Report.content_insights = EmptyDict
       /\ ~Succeeded("comment_analysis") => Report.audience_feedback = EmptyDict

\* finalization has returned success although extraction and the comment
\* analysis were absent and transcription and the content analysis had failed
C13_Witness ==
    /\ DOMAIN step_results = {"transcription", "content_analysis", "finalization"}
    /\ Failed("transcription")
    /\ Failed("content_analysis")
    /\ step_results["finalization"].success
    /\ pc = "done"

\* C14: a step whose required input is missing fails before any sub-task is
\* started. When the parallel step was invoked without extraction or
\* transcription data, run_analysis' except clause gets the
\* ExternalServiceError, neither branch was ever created, no branch has sent a
\* tick or written the row. When the transcription step was invoked without
\* extraction data or without an audio file path it returned a failed
\* StepResult, and transcribe_audio_task was never called: it sent no tick and
\* wrote neither result_data nor an error_message.
C14_MissingInputFailsFast ==
    LET extraction == StepData(step_results, "extraction")
        transcription == StepData(step_results, "transcription")
    IN /\ (/\ Invoked("parallel")
           /\ ~Truthy(extraction) \/ ~Truthy(transcription))
            => /\ exc = ExternalServiceError(<<"analysis_data_incomplete">>)
               /\ pc \in {"except", "except_notify", "done"}
               /\ cpc = "idle" /\ mpc = "idle"
               /\ ~Returned("content_analysis") /\ ~Returned("comment_analysis")
               /\ \A i \in ProgressIdx : log[i].src = "orchestrator"
               /\ job.result_data = EmptyDict
               /\ job.error_message = NoError
       /\ (/\ Invoked("transcription")
           /\ Get(extraction, "audio_file_path", None) = None)
            => /\ Failed("transcription")
               /\ step_results["transcription"].error
                     \in {<<"extraction_data_not_found">>, <<"audio_file_path_not_found">>}
               /\ ProgressIdx = {}
               /\ job.result_data = EmptyDict
               /\ job.error_message = NoError
               /\ ~Invoked("parallel")

\* the run has ended after the transcription step was given extraction data
\* without an audio file path
C14_Witness ==
    /\ pc = "done"
    /\ Truthy(StepData(step_results, "extraction"))
    /\ Failed("transcription")
    /\ step_results["transcription"].error = <<"audio_file_path_not_found">>

\* the exceptions the extraction collaborators raised during the run
Raised == {log[i].v : i \in {k \in 1..Len(log) : log[k].kind = "raised"}}

\* C15: when the run has failed because a collaborator raised a
\* RateLimitError with a retry-after hint, the exception run_analysis
\* re-raised carries that value (as its retry_after or in its message), and
\* so do the message persisted on the job and the message of the failure
\* notification.
C15_RetryAfterPreserved ==
    \A e \in Raised :
        (pc = "done" /\ e.type = "RateLimitError")
        => /\ outcome.kind = "raised"
           /\ exc.retry_after = e.retry_after \/ e.retry_after \in Range(exc.msg)
           /\ \/ e.retry_after \in Range(job.current_step)
              \/ e.retry_after \in Range(job.error_message)
           /\ \A i \in FailedIdx("orchestrator") :
                e.retry_after \in Range(log[i].v.message)

\* C16: in the report of a finalization that succeeded, content_insights is
\* the payload of a succeeded content analysis step and audience_feedback the
\* payload of a succeeded comment analysis step.
C16_PayloadPassThrough ==
    Succeeded("finalization")
    => /\ Succeeded("content_analysis")
            => Report.content_insights = step_results["content_analysis"].data
       /\ Succeeded("comment_analysis")
            => Report.audience_feedback = step_results["comment_analysis"].data

\* C17: the persisted progress of the job stays within 0..100, does not
\* decrease from one write to the next while the job is PROCESSING, and is
\* 100 when a pipeline run has ended and left the job COMPLETED.
C17_PersistedProgress ==
    /\ [](/\ job.progress \in 0..100
          /\ (pc = "done" /\ job.status = "completed") => job.progress = 100)
    /\ [][(job.status = "processing" /\ job'.status = "processing")
            => job'.progress >= job.progress]_vars

\* the calls of the collaborator `name` made during the run
Calls(name) == {i \in 1..Len(log) : log[i].kind = "call" /\ log[i].v = name}

\* the collaborators that raised during the run
RaisedBy == {log[i].src : i \in {k \in 1..Len(log) : log[k].kind = "raised"}}

\* the notifications of the given kind sent during the run
Notifications(kind) == {i \in 1..Len(log) : log[i].kind = kind}

\* the value the ended run returned to its caller
Returns == {log[i].v : i \in {k \in 1..Len(log) : log[k].kind = "return"}}

AnalysisCollaborators ==
    {"extract_video_id", "get_video_info", "download_audio", "get_comments",
     "transcribe_audio_task", "analyze_content_task", "analyze_comments_task"}

ResultKeys == {"video_info", "transcription", "content_analysis", "comment_analysis"}

ScoreInputs ==
    LET content_analysis == Get(StepData(step_results, "content_analysis"),
                                "analysis", EmptyDict)
        comment_analysis == Get(StepData(step_results, "comment_analysis"),
                                "analysis", EmptyDict)
        dist == Get(comment_analysis, "sentiment_distribution", EmptyDict)
    IN [quality |-> Get(Get(content_analysis, "quality_metrics", EmptyDict),
                        "overall_quality", 50),
        structure |-> Get(Get(content_analysis, "content_structure", EmptyDict),
                          "overall_structure_score", 50),
        has_ratio |-> Truthy(dist),
        positive |-> Get(dist, "positive", 0),
        total |-> SumValues(dist)]

ContentAnalysisIn ==
    Get(StepData(step_results, "content_analysis"), "analysis", EmptyDict)

CommentAnalysisIn ==
    Get(StepData(step_results, "comment_analysis"), "analysis", EmptyDict)

\* C22: the topic overlap of content topics A and comment themes B is
\* |A n B| / |A u B| over the lower-cased sets and 0 when either list is empty;
\* it lies in [0,1] and is the same for (B, A); the report's topic resonance
\* carries that score with level high above 0.6, medium above 0.3, low
\* otherwise (the report has a topic resonance only when both lists are
\* non-empty).
C22_TopicOverlap ==
    Succeeded("finalization")
    => LET A == Get(Get(ContentAnalysisIn, "topic_analysis", EmptyDict),
                    "main_topics", <<>>)
           B == Get(CommentAnalysisIn, "key_themes", <<>>)
           LA == {Lower(x) : x \in Range(A)}
           LB == {Lower(x) : x \in Range(B)}
           score == calculate_topic_overlap(A, B)
           r == Report.cross_analysis_insights.topic_resonance
       IN /\ score = IF A = <<>> \/ B = <<>> THEN <<0, 1>>
                     ELSE <<Cardinality(LA \cap LB), Cardinality(LA \cup LB)>>
          /\ 0 <= score[1] /\ score[1] <= score[2] /\ score[2] > 0
          /\ calculate_topic_overlap(B, A) = score
          /\ (r = EmptyDict) <=> (A = <<>> \/ B = <<>>)
          /\ r /= EmptyDict
               => /\ r.topic_overlap_score = score
                  /\ r.resonance_level
                       = IF 10 * Cardinality(LA \cap LB) > 6 * Cardinality(LA \cup LB)
                         THEN "high"
                         ELSE IF 10 * Cardinality(LA \cap LB) > 3 * Cardinality(LA \cup LB)
                         THEN "medium" ELSE "low"

C22_Witness ==
    /\ Succeeded("finalization")
    /\ Get(Get(ContentAnalysisIn, "topic_analysis", EmptyDict), "main_topics", <<>>)
           = <<"AI">>
    /\ Get(CommentAnalysisIn, "key_themes", <<>>) = <<"ai", "Tech">>
    /\ Report.cross_analysis_insights.topic_resonance.resonance_level = "medium"

\* the branch whose future holds r has ended in failure
BranchFailed(r) == r.step /= None /\ ~r.success

\* C23: during one orchestrator run the persisted status, once COMPLETED or
\* FAILED, is changed no further by the run and its sub-tasks (the writes of
\* cancel_task are not counted); and while only one of the two analysis
\* branches has failed (no step has failed the run) the persisted status is
\* not FAILED and no task_failed notification has been sent.
C23_StatusTransitions ==
    /\ [][(job.status \in {"completed", "failed"} /\ cancelPc' = cancelPc)
            => job'.status = job.status]_vars
    /\ []((/\ exc = NoException
           /\ Succeeded("transcription")
           /\ BranchFailed(content_result) /= BranchFailed(comment_result))
          => /\ job.status /= "failed"
             /\ Notifications("task_failed") = {})

\* the steps of run_analysis and of the branches it awaits; the event loop
\* runs a coroutine that is ready, and every collaborator call returns or raises
SpecFaultsFair ==
    SpecFaults
    /\ WF_vars(\/ StartRun \/ MarkProcessing \/ RunExtraction \/ RunTranscription
               \/ StartParallel \/ ContentSelect \/ ContentMark \/ ContentAnalyze
               \/ CommentStart \/ CommentRead \/ CommentWrite \/ Gather
               \/ RunFinalization \/ MarkCompleted \/ NotifyCompleted
               \/ ExceptStatus \/ ExceptNotify)

\* every run_analysis call ends (holds under SpecFaultsFair)
Terminates == <>(pc = "done")

\* C24: once a run_analysis call has returned or raised, the persisted
\* status of the job is COMPLETED or FAILED, also when a job-store write or a
\* notification raised inside the failure handler.
C24_NeverLeftProcessing ==
    (pc = "done" /\ outcome.kind \in {"returned", "raised"})
    => job.status \in {"completed", "failed"}

\* the attempts of the call that failed
FailedAttempts == {i \in 1..Len(llm.attempts) : llm.attempts[i] /= "content"}

\* the history of the call in progress is one a bounded retry loop produces
BoundedRetry ==
    /\ Len(llm.attempts) <= max_retries
    /\ \A i \in 1..Len(llm.attempts) :
          llm.attempts[i] = "content" => i = Len(llm.attempts)
    /\ Len(llm.sleeps) \in {Len(llm.attempts), Len(llm.attempts) - 1}
         \/ llm.attempts = <<>>
    /\ \A k \in 1..Len(llm.sleeps) : llm.sleeps[k] = retry_delay * (2 ^ (k - 1))
    /\ llm.pc = "done"
         => /\ (llm.result.kind = "returned")
                 <=> (llm.attempts /= <<>>
                      /\ llm.attempts[Len(llm.attempts)] = "content")
            /\ (llm.result = Outcome("raised", "ExternalServiceError"))
                 <=> (Cardinality(FailedAttempts) = max_retries)
            /\ Len(llm.sleeps) = Len(llm.attempts) - 1

\* C25: _make_api_call makes at most max_retries attempts; a response with
\* content ends the call at once with a return; before every attempt after
\* the first it has slept retry_delay * 2^k after the k-th failure (k from 0);
\* it raises ExternalServiceError exactly when max_retries attempts in a row
\* have failed; and every started call ends.
C25_BoundedRetry == []BoundedRetry /\ ((llm.pc /= "idle") ~> (llm.pc = "done"))

C25_Witness ==
    /\ llm.pc = "done"
    /\ llm.attempts = <<"raises", "empty", "raises">>
    /\ llm.sleeps = <<1, 2>>
    /\ llm.result = Outcome("raised", "ExternalServiceError")

\* the recommendations about the speaking rate
RateRecommendations == {"slow_down", "speed_up"}

\* C26: the report has a speaking-rate recommendation exactly when the
\* speaking rate of that report (words per minute, 0 for a falsy duration) is
\* above 180 or below 120.
C26_SpeakingRate ==
    Succeeded("finalization")
    => LET rate == Report.transcript_analysis.speaking_rate_wpm
           given == Range(Report.recommendations.technical_improvements)
                        \cap RateRecommendations
       IN (given /= {}) <=> (rate[1] > 180 * rate[2] \/ rate[1] < 120 * rate[2])

\* the kinds of the terminal notifications observer w received in this run
Received(w) == {delivered[w][k].type : k \in 1..Len(delivered[w])}

\* C27: in one orchestrator run no observer receives both a task_failed and a
\* task_completed; task_completed is sent only when no task_failed was sent
\* in the run, and a run in which task_failed was sent ends with the job FAILED.
C27_ExclusiveNotifications ==
    /\ \A w \in Observers : ~({"task_failed", "task_completed"} \subseteq Received(w))
    /\ Notifications("task_completed") /= {} => Notifications("task_failed") = {}
    /\ (pc = "done" /\ Notifications("task_failed") /= {}) => job.status = "failed"

\* C28: once both analysis branches have succeeded, the persisted
\* result_data of the job has the transcription entry and both the
\* content_analysis and the comment_analysis entries.
C28_NoLostUpdate ==
    (Succeeded("content_analysis") /\ Succeeded("comment_analysis"))
    => {"transcription", "content_analysis", "comment_analysis"}
           \subseteq DOMAIN job.result_data

\* C29: once websocket_endpoint has handled a client's disconnect, the socket
\* is not registered for its task, no send_message call that starts afterwards
\* attempts it, and the registry holds no key whose connections have all been
\* disconnected.
C29_DeregisteredOnDisconnect ==
    /\ \A s \in Sockets :
           ws.sock[s].state = "closed" =>
               s \notin Registered(ws.active_connections, ws.heap, ws.sock[s].task)
    /\ \A x \in Senders :
           ws.send[x].pc = "await" => ws.send[x].conn \notin ws.send[x].closed_before
    /\ \A t \in DOMAIN ws.active_connections :
           \E s \in Sockets : /\ ws.sock[s].task = t
                              /\ ws.sock[s].state \in {"open", "gone"}

\* a step of the send_message call x
SendStep(x) ==
    <<ws.send[x].pc, ws.send[x].i, ws.send[x].calls>>
        /= <<ws'.send[x].pc, ws'.send[x].i, ws'.send[x].calls>>

\* a finished send_message call did not raise, attempted every connection
\* that stayed registered for its task, and removed each failed one once
SendMessageSound ==
    \A x \in Senders :
        ws.send[x].pc = "done" =>
            /\ ws.send[x].raised = None
            /\ ws.send[x].stayed \subseteq ws.send[x].attempted
            /\ ws.send[x].removed = ws.send[x].disconnected

\* C30: under every interleaving with connect, disconnect and other
\* send_message calls, a send_message call never raises, attempts delivery on
\* every connection that stays registered for its task throughout the call and
\* removes each connection whose send failed exactly once; and no step of it
\* changes the connections of another task id.
C30_SendMessageSafe ==
    /\ []SendMessageSound
    /\ [][\A x \in Senders :
              SendStep(x) =>
                  \A t \in WsTasks \ {ws'.send[x].task} :
                      Registered(ws'.active_connections, ws'.heap, t)
                          = Registered(ws.active_connections, ws.heap, t)]_vars

====
